---- MODULE Spec2Model ----
(***************************************************************************)
(* A model of relay's synchronization engine (core.SyncEngine) together    *)
(* with the components it drives: the checksum-cached FileScanner, the     *)
(* FileCopier, the ConflictResolver, the RetryManager and the              *)
(* ErrorHandler.                                                           *)
(*                                                                         *)
(* The file system is a pair of trees over the relative paths Rel.  The    *)
(* source tree is read-only during a run; the destination tree, the digest *)
(* cache, the counters, the progress record and the error buffer are the   *)
(* engine's state.  One run of Sync is a dispatcher (the calling           *)
(* goroutine) plus one worker goroutine per dispatched source entry.       *)
(***************************************************************************)
EXTENDS Integers, Sequences, FiniteSets, TLC

(***************************************************************************)
(* Bounds of the model.                                                    *)
(***************************************************************************)
\* modification times are counted in ticks, 1..MaxTime
MaxTime == 3
\* file sizes range over 1..MaxSize (0 is the empty / freshly truncated file)
MaxSize == 2
\* distinct contents of one size
MaxBody == 2
\* how many times Sync/Mirror is called on one engine
MaxRuns == 2
\* runtime.GOMAXPROCS(0) of the modelled machine
NumCPU == 1
\* ticks per second: time.Time has sub-second resolution, Unix() has not
TicksPerSec == 2
\* RetryConfig.MaxAttempts ranges over 0..MaxTries in calls of the retry manager
MaxTries == 3
\* RetryConfig.InitialDelay and MaxDelay range over 1..MaxDur
MaxDur == 3
\* the number of attempts a transient failure of the copy lasts
FlakyFails == 1

(***************************************************************************)
(* Program constants.                                                      *)
(***************************************************************************)
\* RetryConfig.MaxAttempts of the default retry configuration
MaxAttempts == 3
\* the capacity NewSyncEngine gives its error handler
MaxErrors == 1000

(***************************************************************************)
(* Paths and trees.                                                        *)
(***************************************************************************)
Rel == {".", "a", "d", "d/b"}

\* filepath.Dir on relative paths
Parent(p) == IF p = "d/b" THEN "d" ELSE "."

Times == 1..MaxTime
Now == MaxTime

\* time.Time.Unix(): whole seconds
Unix(t) == t \div TicksPerSec

\* permission bits: of the regular files, of the source's directories, and
\* of the directories copyRegularFile creates above a destination file
FileMode == "0644"
DirMode == "0755"
IntermediateMode == "0750"

NoEntry ==
    [kind |-> "none", size |-> 0, mtime |-> 0, body |-> 0, partial |-> FALSE, mode |-> "none"]
FileEntry(s, t, b) ==
    [kind |-> "file", size |-> s, mtime |-> t, body |-> b, partial |-> FALSE,
     mode |-> FileMode]
DirEntry(t) ==
    [kind |-> "dir", size |-> 0, mtime |-> t, body |-> 0, partial |-> FALSE, mode |-> DirMode]

VARIABLES
    src,        \* source tree: Rel -> entry (never written by the engine)
    dst,        \* destination tree: Rel -> entry
    backups,    \* relative paths whose destination file was copied to the backup directory
    cache,      \* FileScanner.cache: <<root, rel>> -> cacheEntry
    resolver,   \* ConflictResolver fields
    stats,      \* SyncEngine.stats
    progress,   \* SyncEngine.progress
    errors,     \* ErrorHandler.errors
    opts,       \* SyncOptions of the current run
    ctx,        \* the context handed to Sync: cancelled or not
    deadline,   \* whether opts.Timeout has elapsed since the run started
    pc,         \* position of the goroutine that called Sync
    result,     \* what Sync returned
    srcFiles,   \* scan result of the source: Rel -> FileInfo
    destMap,    \* destMap built from the destination scan
    pending,    \* source entries the dispatch loop has not reached yet
    sem,        \* number of tokens in the semaphore channel
    wg,         \* WaitGroup counter
    w,          \* worker goroutines, one per dispatched entry
    fault,      \* injected I/O behaviour per path
    run,        \* number of Sync calls made so far
    hist,       \* history of the current run (not program state)
    call        \* a call of a function of the resolver or the retry manager on its own

vars == <<src, dst, backups, cache, resolver, stats, progress, errors, opts, ctx,
          deadline, pc, result, srcFiles, destMap, pending, sem, wg, w, fault, run, hist,
          call>>

(***************************************************************************)
(* Errors.  An error value is the chain of its layers, outermost first:    *)
(* every wrapper in the code wraps with %w, so the message of an error     *)
(* contains the text of every layer and errors.Is/As walk the whole chain. *)
(***************************************************************************)
\* the text of syscall.ENOENT, EACCES and EIO and of context.Canceled
ENOENT == "no such file or directory"
EACCES == "permission denied"
EIO == "input/output error"
Canceled == "context canceled"

\* fmt.Errorf("...: %w", err)
Wrap(text, err) == <<text>> \o err

\* *fs.PathError{Err: errno}
PathError(errno) == <<"PathError", errno>>

\* contains(err.Error(), pattern), for the patterns that are a layer's text
MsgContains(err, pattern) == \E i \in 1..Len(err) : err[i] = pattern

\* os.IsNotExist: underlyingError strips one *PathError, *LinkError or
\* *SyscallError from the value it is given and compares what is left with
\* ErrNotExist; it does not follow Unwrap
OsIsNotExist(err) ==
    LET u == IF err # <<>> /\ err[1] \in {"PathError", "LinkError", "SyscallError"}
             THEN Tail(err) ELSE err
    IN  u # <<>> /\ u[1] = ENOENT

isNetworkError(err) ==
    \E pat \in {"connection refused", "connection reset", "timeout",
                "network is unreachable", "temporary failure", "no route to host"} :
        MsgContains(err, pat)

isPermissionError(err) ==
    \E pat \in {"permission denied", "access denied", "operation not permitted",
                "insufficient privileges"} : MsgContains(err, pat)

isDiskFullError(err) ==
    \E pat \in {"no space left on device", "disk full", "insufficient space",
                "not enough space"} : MsgContains(err, pat)

\* errors.Is(err, context.Canceled) || errors.Is(err, context.DeadlineExceeded)
isContextError(err) ==
    \E i \in 1..Len(err) : err[i] \in {Canceled, "context deadline exceeded"}

\* the category ClassifySyncError gives an error
ClassifySyncError(op, path, err) ==
    [Category |-> CASE isNetworkError(err) -> "Network"
                    [] isPermissionError(err) -> "Permission"
                    [] isDiskFullError(err) -> "Disk"
                    [] isContextError(err) -> "Cancellation"
                    [] OTHER -> "Unknown",
     Operation |-> op,
     Path |-> path]

\* ErrorHandler.AddError: FIFO eviction at maxErrors
AddError(errs, e) ==
    (IF Len(errs) >= MaxErrors THEN Tail(errs) ELSE errs) \o <<e>>

(***************************************************************************)
(* FileScanner.                                                            *)
(***************************************************************************)
\* NewFileScanner(0): maxConcurrency = runtime.GOMAXPROCS(0) * 2
maxConcurrency == NumCPU * 2

\* FileScanner.checksumAlgo as NewFileScanner sets it
checksumAlgo == "blake3"

NoSum == <<>>

\* calculateChecksum: the digest of a file's bytes; distinct contents have
\* distinct digests
calculateChecksum(e) == <<checksumAlgo, e.size, e.body>>

NoCache == [valid |-> FALSE, checksum |-> NoSum, modTime |-> 0, size |-> 0]

\* the cache test of getChecksum without its comparison of the sizes
CacheHitByTime(c, key, e) ==
    c[key].valid /\ c[key].modTime = Unix(e.mtime)

\* the cache test of getChecksum: the entry is reused when the whole seconds of
\* the modification time and the size agree
CacheHit(c, key, e) ==
    c[key].valid /\ c[key].modTime = Unix(e.mtime) /\ c[key].size = e.size

\* getChecksum: the digest the scan reports for the file at key
getChecksum(c, key, e) ==
    IF CacheHit(c, key, e) THEN c[key].checksum ELSE calculateChecksum(e)

\* getChecksum: the cache entry it leaves at key
cacheAfter(c, key, e) ==
    IF CacheHit(c, key, e) THEN c[key]
    ELSE [valid |-> TRUE, checksum |-> calculateChecksum(e),
          modTime |-> Unix(e.mtime), size |-> e.size]

NoInfo == [present |-> FALSE, Size |-> 0, ModTime |-> 0, IsDir |-> FALSE, Checksum |-> NoSum]

\* getFileInfo: the record of one entry
getFileInfo(c, key, e) ==
    [present |-> TRUE, Size |-> e.size, ModTime |-> e.mtime, IsDir |-> (e.kind = "dir"),
     Checksum |-> IF e.kind = "file" /\ e.size > 0 THEN getChecksum(c, key, e) ELSE NoSum]

Digested(e) == e.kind = "file" /\ e.size > 0

\* Scan: the error of walking a root that does not exist, <<>> otherwise
ScanErr(tree) ==
    IF tree["."].kind = "none"
    THEN Wrap("failed to scan directory", PathError(ENOENT))
    ELSE <<>>

\* Scan: one record per entry of the tree
ScanFiles(c, root, tree) ==
    [p \in Rel |-> IF tree[p].kind = "none" THEN NoInfo
                   ELSE getFileInfo(c, <<root, p>>, tree[p])]

\* Scan: the files getChecksum opens to compute their digest
ScanOpens(c, root, tree) ==
    {k \in DOMAIN c : /\ k[1] = root
                      /\ ScanErr(tree) = <<>>
                      /\ Digested(tree[k[2]])
                      /\ ~CacheHit(c, k, tree[k[2]])}

\* Scan: the cache after the scan
ScanCache(c, root, tree) ==
    [k \in DOMAIN c |->
        IF k[1] = root /\ Digested(tree[k[2]]) /\ ScanErr(tree) = <<>>
        THEN cacheAfter(c, k, tree[k[2]]) ELSE c[k]]

(***************************************************************************)
(* ConflictResolver.                                                       *)
(***************************************************************************)
\* time.Minute in ticks, and the size threshold of resolveSmart
Minute == 60 * TicksPerSec
SmartSizeDiff == 1024

\* DetectConflict with the test of the times before the test of the sizes
DetectConflictTimesFirst(s, d) ==
    CASE ~s.present \/ ~d.present -> "none"
      [] s.ModTime # d.ModTime -> "ModTimesDiffer"
      [] s.Size # d.Size -> "SizesDiffer"
      [] s.Checksum # NoSum /\ d.Checksum # NoSum /\ s.Checksum # d.Checksum -> "ChecksumsDiffer"
      [] OTHER -> "none"

\* DetectConflict: the kind of conflict, "none" for a nil result
DetectConflict(s, d) ==
    CASE ~s.present \/ ~d.present -> "none"
      [] s.Size # d.Size -> "SizesDiffer"
      [] s.ModTime # d.ModTime -> "ModTimesDiffer"
      [] s.Checksum # NoSum /\ d.Checksum # NoSum /\ s.Checksum # d.Checksum -> "ChecksumsDiffer"
      [] OTHER -> "none"

\* resolveByNewest with its comparisons the wrong way round
resolveByOldest(s, d) ==
    IF s.ModTime < d.ModTime THEN "UseSource"
    ELSE IF d.ModTime < s.ModTime THEN "UseDestination"
    ELSE "UseSource"

resolveByNewest(s, d) ==
    IF s.ModTime > d.ModTime THEN "UseSource"
    ELSE IF d.ModTime > s.ModTime THEN "UseDestination"
    ELSE "UseSource"

\* resolveSmart without its test of the sizes
resolveSmartTimesOnly(s, d) ==
    IF s.ModTime - d.ModTime > Minute THEN "UseSource"
    ELSE IF s.ModTime - d.ModTime < -Minute THEN "UseDestination"
    ELSE resolveByNewest(s, d)

resolveSmart(s, d) ==
    LET sizeDiff == s.Size - d.Size
        timeDiff == s.ModTime - d.ModTime
    IN  IF timeDiff > Minute THEN "UseSource"
        ELSE IF timeDiff < -Minute THEN "UseDestination"
        ELSE IF sizeDiff > SmartSizeDiff THEN "UseSource"
        ELSE IF sizeDiff < -SmartSizeDiff THEN "UseDestination"
        ELSE resolveByNewest(s, d)

Strategies == {"newest", "source", "destination", "smart", "skip"}

\* what the user may answer to resolveInteractively: use source, use
\* destination, backup and use source, skip, or end of input
Answers == {"s", "d", "b", "k", "eof"}

\* ResolveConflict: the decision, or "error" when reading the answer fails
ResolveConflict(r, s, d, answer) ==
    IF r.interactive
    THEN CASE answer = "s" -> "UseSource"
           [] answer = "d" -> "UseDestination"
           [] answer = "b" -> "BackupAndUseSource"
           [] answer = "k" -> "Skip"
           [] OTHER -> "error"
    ELSE CASE r.strategy = "newest" -> resolveByNewest(s, d)
           [] r.strategy = "source" -> "UseSource"
           [] r.strategy = "destination" -> "UseDestination"
           [] r.strategy = "smart" -> resolveSmart(s, d)
           [] r.strategy = "skip" -> "Skip"
           [] OTHER -> resolveByNewest(s, d)

(***************************************************************************)
(* SyncEngine.needsSync.                                                   *)
(***************************************************************************)
needsSync(s, d, o) ==
    IF s.Size # d.Size THEN TRUE
    ELSE IF s.ModTime # d.ModTime THEN TRUE
    ELSE IF o.ChecksumVerify /\ s.Checksum # NoSum /\ d.Checksum # NoSum
         THEN s.Checksum # d.Checksum
    ELSE FALSE


(***************************************************************************)
(* File system operations on a tree.                                       *)
(***************************************************************************)
\* a path, its parent and the root
AncSelf(p) == {p, Parent(p), "."}

\* the directories os.MkdirAll(p) has to create
MkdirNew(t, p) == {q \in AncSelf(p) : t[q].kind = "none"}

\* os.MkdirAll(p) fails when p or one of its ancestors is no directory
MkdirAllOk(t, p) == \A q \in AncSelf(p) : t[q].kind # "file"

\* os.MkdirAll(p, mode): missing directories are created with the mode, an
\* existing directory keeps its own; creating an entry updates the
\* modification time of the directory it is created in
MkdirAll(t, p, mode) ==
    [q \in Rel |->
        IF q \in MkdirNew(t, p) THEN [DirEntry(Now) EXCEPT !.mode = mode]
        ELSE IF \E c \in MkdirNew(t, p) : c # q /\ Parent(c) = q
             THEN [t[q] EXCEPT !.mtime = Now]
        ELSE t[q]]

\* os.OpenFile(p, O_WRONLY|O_CREATE|O_TRUNC): the file is created or emptied
OpenTrunc(t, p) ==
    [q \in Rel |->
        IF q = p THEN [FileEntry(0, Now, 0) EXCEPT !.partial = TRUE]
        ELSE IF q = Parent(p) /\ q # p /\ t[p].kind = "none"
             THEN [t[q] EXCEPT !.mtime = Now]
        ELSE t[q]]

\* os.Remove(p)
Remove(t, p) ==
    [q \in Rel |->
        IF q = p THEN NoEntry
        ELSE IF q = Parent(p) /\ q # p /\ t[p].kind # "none"
             THEN [t[q] EXCEPT !.mtime = Now]
        ELSE t[q]]

\* copyRegularFile without its os.Chtimes call: the new file keeps the time it
\* was written at
WriteCopyNoTimes(t, p, e) ==
    [t EXCEPT ![p] = FileEntry(e.size, Now, e.body)]

\* the destination after copyRegularFile has written the data, synced the file
\* and applied the source's mode and modification time (the copier of
\* NewSyncEngine preserves both)
WriteCopy(t, p, e) ==
    [t EXCEPT ![p] = FileEntry(e.size, e.mtime, e.body)]

\* bufferedCopy on a source file whose offset is at offset: it copies up to the
\* end of the file and returns the number of bytes it has written itself
bufferedCopy(size, offset) == size - offset

\* zeroCopyLinux on a file of size bytes: the bytes it reports as written when
\* every Sendfile call succeeds, and when a call fails after k bytes have been
\* transferred (the result of bufferedCopy is returned as it is)
zeroCopyLinux(size, k, fails) == IF fails THEN bufferedCopy(size, k) ELSE size

(***************************************************************************)
(* The engine.                                                             *)
(***************************************************************************)
ZeroStats ==
    [FilesScanned |-> 0, FilesChanged |-> 0, FilesCreated |-> 0, FilesModified |-> 0,
     BytesTransferred |-> 0, ConflictsFound |-> 0, ConflictsResolved |-> 0,
     ErrorsEncountered |-> 0]

ZeroProgress == [Current |-> 0, Total |-> 0, Percentage |-> 0]

\* updateProgress: Percentage is Current / Total * 100 (its whole part here),
\* left as it is when Total is 0
updateProgress(pr) ==
    IF pr.Total > 0 THEN [pr EXCEPT !.Percentage = (pr.Current * 100) \div pr.Total] ELSE pr

IdleWorker == [pc |-> "idle", exists |-> FALSE, need |-> FALSE, decision |-> "none",
               attempt |-> 0, err |-> <<>>]

\* the history of a run the properties refer to: whether the previous call returned
\* nil, whether the destination root was missing when the run began, whether the
\* context was cancelled while a copy was transferring data, whether an entry was
\* dispatched after the deadline, how often CopyFile was called, and the
\* destination tree the run began with
CacheKeys == {"src", "dst"} \X Rel

ZeroHist == [prevOk |-> FALSE, dstMissing |-> FALSE, cancelMidCopy |-> FALSE,
             lateDispatch |-> FALSE, copyCalls |-> 0,
             dst0 |-> [p \in Rel |-> NoEntry],
             copied |-> 0, opens |-> {}, cache0 |-> [k \in CacheKeys |-> NoCache]]

\* the options Mirror passes to Sync
MirrorOpts == [DryRun |-> FALSE, ChecksumVerify |-> TRUE, Workers |-> 0, Timeout |-> 0]

\* the capacity of the semaphore channel
SemCap(o) == IF o.Workers <= 0 THEN maxConcurrency ELSE o.Workers

\* the workers that are inside syncFile
InSyncFile == {p \in Rel : w[p].pc \in {"syncFile", "copyOpen", "copyData", "retryWait"}}

\* the workers that have been started and have not finished
Active == {p \in Rel : w[p].pc \notin {"idle", "done"}}

Inc(st, field) == [st EXCEPT ![field] = @ + 1]

(***************************************************************************)
(* Inputs.                                                                 *)
(***************************************************************************)
FileEntries == {FileEntry(s, t, b) : s \in 1..MaxSize, t \in Times, b \in 1..MaxBody}

Tree(root, a, d, b) ==
    [p \in Rel |-> CASE p = "." -> root [] p = "a" -> a [] p = "d" -> d [] OTHER -> b]

NoTree == [p \in Rel |-> NoEntry]

\* the modification time of the source's entries
SrcTime == MaxTime - 1

\* the source: a directory holding the regular file a and the directory d
SrcFlat == Tree(DirEntry(SrcTime), FileEntry(MaxSize, SrcTime, 1), DirEntry(SrcTime), NoEntry)

\* the source: a directory holding the directory d, which holds the file d/b
SrcDeep == Tree(DirEntry(SrcTime), NoEntry, DirEntry(SrcTime), FileEntry(MaxSize, SrcTime, 1))

\* a tree is well formed when every entry lies in a directory
WellFormed(t) == \A p \in Rel : t[p].kind # "none" => t[Parent(p)].kind = "dir"

DefaultResolver == [strategy |-> "newest", backup |-> FALSE, interactive |-> FALSE]

ResolverConfigs ==
    {[strategy |-> st, backup |-> FALSE, interactive |-> FALSE] : st \in Strategies}
    \cup {[strategy |-> "newest", backup |-> b, interactive |-> TRUE] : b \in BOOLEAN}

\* the behaviour of the destination file system for one path: no failure, every
\* open of the destination file is refused, or the data transfer fails in the
\* first FlakyFails attempts
FaultKinds == {"none", "denied", "flaky"}

\* the failures of the copier's other steps: the open of the source file is
\* refused, os.Chtimes on the written file is refused, or syscall.Sendfile
\* fails after it has transferred some bytes
CopyFaults == FaultKinds \cup {"unreadable", "notimes", "sendfile"}

NoFault == [p \in Rel |-> "none"]

\* no function is being called on its own
NoCall == [fn |-> "none"]

\* the engine NewSyncEngine returns, before its first operation, apart from the
\* inputs src, dst, resolver, opts and fault
Fresh ==
    /\ backups = {}
    /\ cache = [k \in CacheKeys |-> NoCache]
    /\ stats = ZeroStats
    /\ progress = ZeroProgress
    /\ errors = <<>>
    /\ ctx = FALSE
    /\ deadline = FALSE
    /\ pc = "idle"
    /\ result = <<>>
    /\ srcFiles = [p \in Rel |-> NoInfo]
    /\ destMap = [p \in Rel |-> NoInfo]
    /\ pending = {}
    /\ sem = 0
    /\ wg = 0
    /\ w = [p \in Rel |-> IdleWorker]
    /\ run = 0
    /\ hist = ZeroHist
    /\ call = NoCall

(***************************************************************************)
(* Sync, up to the dispatch loop: reset the counters, scan both trees,     *)
(* build destMap and make the semaphore.                                   *)
(***************************************************************************)
SyncBody(o) ==
    LET serr == ScanErr(src)
        c1 == ScanCache(cache, "src", src)
        sf == ScanFiles(cache, "src", src)
        derr == ScanErr(dst)
        c2 == ScanCache(c1, "dst", dst)
        df == IF derr = <<>> THEN ScanFiles(c1, "dst", dst) ELSE [p \in Rel |-> NoInfo]
        n == Cardinality({p \in Rel : sf[p].present})
    IN  /\ Active = {}
        /\ run' = run + 1
        /\ opts' = o
        /\ ctx' = FALSE
        /\ deadline' = FALSE
        /\ hist' = [ZeroHist EXCEPT !.prevOk = (pc = "returned" /\ result = <<>>),
                                    !.dstMissing = (dst["."].kind = "none"),
                                    !.dst0 = dst,
                                    !.cache0 = cache,
                                    !.opens = ScanOpens(cache, "src", src) \cup
                                              (IF serr = <<>>
                                               THEN ScanOpens(c1, "dst", dst) ELSE {})]
        /\ w' = [p \in Rel |-> IdleWorker]
        /\ sem' = 0
        /\ wg' = 0
        /\ UNCHANGED <<call, src, dst, backups, resolver, errors, fault>>
        /\ IF serr # <<>>
           THEN /\ pc' = "returned"
                /\ result' = Wrap("failed to scan source directory", serr)
                /\ stats' = ZeroStats
                /\ progress' = ZeroProgress
                /\ UNCHANGED <<cache, srcFiles, destMap, pending>>
           ELSE IF derr # <<>> /\ ~OsIsNotExist(derr)
           THEN /\ pc' = "returned"
                /\ result' = Wrap("failed to scan destination directory", derr)
                /\ stats' = [ZeroStats EXCEPT !.FilesScanned = n]
                /\ progress' = [ZeroProgress EXCEPT !.Total = n]
                /\ cache' = c1
                /\ srcFiles' = sf
                /\ UNCHANGED <<destMap, pending>>
           ELSE /\ stats' = [ZeroStats EXCEPT !.FilesScanned = n]
                /\ progress' = [ZeroProgress EXCEPT !.Total = n]
                /\ cache' = c2
                /\ srcFiles' = sf
                /\ destMap' = df
                /\ IF o.Workers < 0
                   THEN \* make(chan struct{}, opts.Workers) panics
                        /\ pc' = "panicked"
                        /\ result' = <<"panic: makechan: size out of range">>
                        /\ pending' = {}
                   ELSE /\ pc' = "dispatch"
                        /\ result' = <<>>
                        /\ pending' = {p \in Rel : sf[p].present}

\* Sync is called on the fresh engine with the options of the run
Sync ==
    /\ pc = "idle"
    /\ SyncBody(opts)

\* Mirror is called, for the first time or again after it has returned
Mirror ==
    /\ pc \in {"idle", "returned"}
    /\ run < MaxRuns
    /\ SyncBody(MirrorOpts)

(***************************************************************************)
(* The dispatch loop and the return.                                       *)
(***************************************************************************)
\* select: the semaphore accepts a token; the worker goroutine is started
Dispatch(p) ==
    /\ pc = "dispatch"
    /\ p \in pending
    /\ sem < SemCap(opts)
    /\ sem' = sem + 1
    /\ wg' = wg + 1
    /\ pending' = pending \ {p}
    /\ w' = [w EXCEPT ![p] = [IdleWorker EXCEPT !.pc = "syncFile"]]
    /\ hist' = [hist EXCEPT !.lateDispatch = @ \/ deadline]
    /\ UNCHANGED <<call, src, dst, backups, cache, resolver, stats, progress, errors, opts, ctx,
                   deadline, pc, result, srcFiles, destMap, fault, run>>

\* select: ctx.Done() is ready; Sync returns ctx.Err() at once
ReturnCancelled ==
    /\ pc = "dispatch"
    /\ pending # {}
    /\ ctx
    /\ pc' = "returned"
    /\ result' = <<Canceled>>
    /\ UNCHANGED <<call, src, dst, backups, cache, resolver, stats, progress, errors, opts, ctx,
                   deadline, srcFiles, destMap, pending, sem, wg, w, fault, run, hist>>

\* wg.Wait() has returned: the end time is taken and Sync returns nil
WaitReturn ==
    /\ pc = "dispatch"
    /\ pending = {}
    /\ wg = 0
    /\ pc' = "returned"
    /\ result' = <<>>
    /\ UNCHANGED <<call, src, dst, backups, cache, resolver, stats, progress, errors, opts, ctx,
                   deadline, srcFiles, destMap, pending, sem, wg, w, fault, run, hist>>

\* the caller cancels the context of the running Sync
Cancel ==
    /\ pc = "dispatch"
    /\ ~ctx
    /\ ctx' = TRUE
    /\ hist' = [hist EXCEPT !.cancelMidCopy = \E p \in Rel : w[p].pc = "copyData"]
    /\ UNCHANGED <<call, src, dst, backups, cache, resolver, stats, progress, errors, opts,
                   deadline, pc, result, srcFiles, destMap, pending, sem, wg, w, fault, run>>

\* opts.Timeout elapses while Sync is running
DeadlinePasses ==
    /\ pc = "dispatch"
    /\ opts.Timeout > 0
    /\ ~deadline
    /\ deadline' = TRUE
    /\ UNCHANGED <<call, src, dst, backups, cache, resolver, stats, progress, errors, opts, ctx,
                   pc, result, srcFiles, destMap, pending, sem, wg, w, fault, run, hist>>

(***************************************************************************)
(* The worker goroutine: syncFile, then the error count and the deferred   *)
(* function.                                                               *)
(***************************************************************************)
\* syncFile has returned e with the counters st: the worker counts the error,
\* takes its token back from the semaphore and calls wg.Done(); the progress
\* update of the deferred function is still to come
Finish(p, wk, st, e) ==
    /\ w' = [w EXCEPT ![p] = [wk EXCEPT !.pc = "progress", !.err = e]]
    /\ stats' = IF e # <<>> THEN Inc(st, "ErrorsEncountered") ELSE st
    /\ sem' = sem - 1
    /\ wg' = wg - 1

\* ConflictResolver.CreateBackup: nothing is copied unless backups are enabled
CreateBackup(r, bk, p) == IF r.backup THEN bk \cup {p} ELSE bk

\* syncFile from its entry to the decision what to do with the entry; every
\* path but the copy of a regular file ends here
SyncFileStart(p, answer) ==
    LET s == srcFiles[p]
        d == destMap[p]
        exists == d.present
        need == IF exists THEN needsSync(s, d, opts) ELSE TRUE
        conflict == exists /\ need /\ DetectConflict(s, d) # "none"
        res == IF conflict THEN ResolveConflict(resolver, s, d, answer) ELSE "none"
        st1 == IF conflict THEN Inc(stats, "ConflictsFound") ELSE stats
        st2 == IF res \in {"BackupAndUseSource", "UseSource"}
               THEN Inc(st1, "ConflictsResolved") ELSE st1
        wk == [w[p] EXCEPT !.exists = exists, !.need = need, !.decision = res]
    IN  /\ w[p].pc = "syncFile"
        /\ answer \in (IF conflict /\ resolver.interactive THEN Answers ELSE {"s"})
        /\ backups' = IF res = "BackupAndUseSource"
                      THEN CreateBackup(resolver, backups, p) ELSE backups
        /\ UNCHANGED <<call, src, cache, resolver, progress, errors, opts, ctx, deadline, pc,
                       result, srcFiles, destMap, pending, fault, run, hist>>
        /\ IF res = "error"
           THEN /\ Finish(p, wk, st1, Wrap("failed to resolve conflict",
                                           <<"failed to read input", "EOF">>))
                /\ UNCHANGED dst
           ELSE IF res \in {"Skip", "UseDestination"} \/ ~need
           THEN /\ Finish(p, wk, st1, <<>>)
                /\ UNCHANGED dst
           ELSE IF opts.DryRun
           THEN /\ Finish(p, wk, Inc(st2, IF exists THEN "FilesModified" ELSE "FilesCreated"),
                          <<>>)
                /\ UNCHANGED dst
           ELSE IF s.IsDir
           THEN IF MkdirAllOk(dst, p)
                THEN /\ dst' = MkdirAll(dst, p, src[p].mode)
                     /\ Finish(p, wk, Inc(st2, "FilesCreated"), <<>>)
                ELSE /\ Finish(p, wk, st2, Wrap("failed to create directory",
                                                PathError("not a directory")))
                     /\ UNCHANGED dst
           ELSE /\ stats' = st2
                /\ w' = [w EXCEPT ![p] = [wk EXCEPT !.pc = "copyOpen", !.attempt = 1]]
                /\ UNCHANGED <<dst, sem, wg>>

\* syncFile recording every failed attempt of the copy, not only the last one
AttemptFailedRecorded(p, e) ==
    IF w[p].attempt >= MaxAttempts
    THEN LET final == Wrap("operation failed after attempts", e)
         IN  /\ errors' = AddError(errors, ClassifySyncError("copy", p, final))
             /\ Finish(p, w[p], Inc(stats, "ErrorsEncountered"),
                       Wrap("failed to copy file after retries", final))
    ELSE /\ w' = [w EXCEPT ![p] = [@ EXCEPT !.pc = "retryWait", !.err = e]]
         /\ errors' = AddError(errors, ClassifySyncError("copy", p, e))
         /\ stats' = Inc(stats, "ErrorsEncountered")
         /\ UNCHANGED <<sem, wg>>

\* ExecuteWithRetry: an attempt of the operation has returned e.  No error of
\* the copier is a *RetryableError, so neither the fatal nor the non-retryable
\* exit is taken: the last attempt ends the loop, any other is followed by the
\* wait.  When the loop ends syncFile classifies the error, adds it to the
\* error handler, counts it and returns it
AttemptFailed(p, e) ==
    IF w[p].attempt >= MaxAttempts
    THEN LET final == Wrap("operation failed after attempts", e)
         IN  /\ errors' = AddError(errors, ClassifySyncError("copy", p, final))
             /\ Finish(p, w[p], Inc(stats, "ErrorsEncountered"),
                       Wrap("failed to copy file after retries", final))
    ELSE /\ w' = [w EXCEPT ![p] = [@ EXCEPT !.pc = "retryWait", !.err = e]]
         /\ UNCHANGED <<errors, stats, sem, wg>>

\* CopyFile, copyRegularFile up to the opening of the source file
CopyOpen(p) ==
    /\ w[p].pc = "copyOpen"
    /\ hist' = [hist EXCEPT !.copyCalls = @ + 1]
    /\ UNCHANGED <<call, src, backups, cache, resolver, progress, opts, ctx, deadline, pc,
                   result, srcFiles, destMap, pending, fault, run>>
    /\ IF ~MkdirAllOk(dst, Parent(p))
       THEN /\ AttemptFailed(p, Wrap("failed to create destination directory",
                                     PathError("not a directory")))
            /\ UNCHANGED dst
       ELSE IF dst[p].kind = "dir"
       THEN /\ AttemptFailed(p, Wrap("failed to create destination file",
                                     PathError("is a directory")))
            /\ dst' = MkdirAll(dst, Parent(p), IntermediateMode)
       ELSE IF fault[p] = "denied"
       THEN /\ AttemptFailed(p, Wrap("failed to create destination file", PathError(EACCES)))
            /\ dst' = MkdirAll(dst, Parent(p), IntermediateMode)
       ELSE IF fault[p] = "unreadable"
       THEN \* the destination file has been created; it is not removed
            /\ AttemptFailed(p, Wrap("failed to open source file", PathError(EACCES)))
            /\ dst' = OpenTrunc(MkdirAll(dst, Parent(p), IntermediateMode), p)
       ELSE /\ dst' = OpenTrunc(MkdirAll(dst, Parent(p), IntermediateMode), p)
            /\ w' = [w EXCEPT ![p] = [@ EXCEPT !.pc = "copyData"]]
            /\ UNCHANGED <<errors, stats, sem, wg>>

\* copyRegularFile from the transfer of the data to its return; Sendfile, when
\* it fails, has transferred k bytes.  After a successful copy syncFile adds to
\* its counters and returns nil.  hist.copied is the number of bytes written by
\* the copies that returned nil
CopyData(p, k) ==
    /\ w[p].pc = "copyData"
    /\ k \in (IF fault[p] = "sendfile" THEN 0..(src[p].size - 1) ELSE {0})
    /\ UNCHANGED <<call, src, backups, cache, resolver, progress, opts, ctx, deadline, pc,
                   result, srcFiles, destMap, pending, fault, run>>
    /\ IF ctx
       THEN /\ dst' = Remove(dst, p)
            /\ AttemptFailed(p, Wrap("failed to copy file content", <<Canceled>>))
            /\ UNCHANGED hist
       ELSE IF fault[p] = "flaky" /\ w[p].attempt <= FlakyFails
       THEN /\ dst' = Remove(dst, p)
            /\ AttemptFailed(p, Wrap("failed to copy file content", <<EIO>>))
            /\ UNCHANGED hist
       ELSE IF zeroCopyLinux(src[p].size, k, fault[p] = "sendfile") # src[p].size
       THEN /\ dst' = Remove(dst, p)
            /\ AttemptFailed(p, <<"incomplete copy">>)
            /\ UNCHANGED hist
       ELSE IF fault[p] = "notimes"
       THEN \* the file has been written and synced; it is not removed
            /\ dst' = [dst EXCEPT ![p] = FileEntry(src[p].size, Now, src[p].body)]
            /\ AttemptFailed(p, Wrap("failed to set file times",
                                     PathError("operation not permitted")))
            /\ UNCHANGED hist
       ELSE /\ dst' = WriteCopy(dst, p, src[p])
            /\ hist' = [hist EXCEPT !.copied = @ + src[p].size]
            /\ Finish(p, w[p],
                      Inc(Inc([stats EXCEPT !.BytesTransferred = @ + srcFiles[p].Size],
                              IF w[p].exists THEN "FilesModified" ELSE "FilesCreated"),
                          "FilesChanged"),
                      <<>>)
            /\ UNCHANGED errors

\* ExecuteWithRetry: the select between two attempts.  A goroutine blocked in
\* select is woken by the first of its channels to become ready: ctx.Done()
\* when the context is cancelled before the timer fires, the timer otherwise
RetryWait(p) ==
    /\ w[p].pc = "retryWait"
    /\ UNCHANGED <<call, src, dst, backups, cache, resolver, progress, opts, ctx, deadline, pc,
                   result, srcFiles, destMap, pending, fault, run, hist>>
    /\ IF ctx
       THEN LET final == Wrap("operation cancelled after attempts", <<Canceled>>)
            IN  /\ errors' = AddError(errors, ClassifySyncError("copy", p, final))
                /\ Finish(p, w[p], Inc(stats, "ErrorsEncountered"),
                          Wrap("failed to copy file after retries", final))
       ELSE /\ w' = [w EXCEPT ![p] = [@ EXCEPT !.pc = "copyOpen", !.attempt = @ + 1]]
            /\ UNCHANGED <<errors, stats, sem, wg>>

\* the end of the deferred function: progress.Current and updateProgress
WorkerProgress(p) ==
    /\ w[p].pc = "progress"
    /\ progress' = updateProgress([progress EXCEPT !.Current = @ + 1])
    /\ w' = [w EXCEPT ![p] = [@ EXCEPT !.pc = "done"]]
    /\ UNCHANGED <<call, src, dst, backups, cache, resolver, stats, errors, opts, ctx, deadline,
                   pc, result, srcFiles, destMap, pending, sem, wg, fault, run, hist>>

\* the steps of a running Sync
Run ==
    \/ \E p \in Rel : Dispatch(p)
    \/ WaitReturn
    \/ \E p \in Rel, answer \in Answers : SyncFileStart(p, answer)
    \/ \E p \in Rel : CopyOpen(p)
    \/ \E p \in Rel, k \in 0..MaxSize : CopyData(p, k)
    \/ \E p \in Rel : WorkerProgress(p)


(***************************************************************************)
(* One Sync on a fresh engine.                                             *)
(***************************************************************************)
\* the destination before the run: nothing at all, or a directory that may
\* hold a file a (or a directory in its place)
DstTrees ==
    {NoTree} \cup
    {Tree(DirEntry(SrcTime), fa, NoEntry, NoEntry) :
        fa \in FileEntries \cup {NoEntry, DirEntry(SrcTime)}}

SyncOptions ==
    [DryRun : BOOLEAN, ChecksumVerify : BOOLEAN, Workers : -1..1, Timeout : {0}]

Init ==
    /\ Fresh
    /\ src \in {NoTree, SrcFlat}
    /\ dst \in DstTrees
    /\ resolver \in ResolverConfigs
    /\ opts \in SyncOptions
    /\ fault \in {f \in [Rel -> FaultKinds] : \A p \in Rel : p # "a" => f[p] = "none"}

Next ==
    \/ Sync
    \/ Run
    \/ \E p \in Rel : RetryWait(p)
    \/ Cancel
    \/ ReturnCancelled

Spec == Init /\ [][Next]_vars

(***************************************************************************)
(* Repeated Mirror on the engine NewSyncEngine builds: the default         *)
(* resolver, no I/O failure, no cancellation.                              *)
(***************************************************************************)
InitMirror ==
    /\ Fresh
    /\ src = SrcFlat
    /\ dst \in DstTrees
    /\ resolver = DefaultResolver
    /\ opts = MirrorOpts
    /\ fault = NoFault

NextMirror ==
    \/ Mirror
    \/ Run

SpecMirror == InitMirror /\ [][NextMirror]_vars

(***************************************************************************)
(* One Sync with a resolver whose configuration enables backups.           *)
(***************************************************************************)
BackupConfigs ==
    {[strategy |-> st, backup |-> TRUE, interactive |-> FALSE] : st \in Strategies}
    \cup {[strategy |-> "newest", backup |-> TRUE, interactive |-> TRUE]}

InitBackup ==
    /\ Fresh
    /\ src = SrcFlat
    /\ dst \in DstTrees
    /\ resolver \in BackupConfigs
    /\ opts \in [DryRun : BOOLEAN, ChecksumVerify : {TRUE}, Workers : {1}, Timeout : {0}]
    /\ fault = NoFault

SpecBackup == InitBackup /\ [][Next]_vars

(***************************************************************************)
(* One Sync with opts.Timeout set.                                         *)
(***************************************************************************)
InitTimeout ==
    /\ Fresh
    /\ src = SrcFlat
    /\ dst \in {Tree(DirEntry(SrcTime), NoEntry, NoEntry, NoEntry)}
    /\ resolver = DefaultResolver
    /\ opts \in [DryRun : {FALSE}, ChecksumVerify : {TRUE}, Workers : 0..1, Timeout : {1}]
    /\ fault = NoFault

NextTimeout ==
    \/ Next
    \/ DeadlinePasses

SpecTimeout == InitTimeout /\ [][NextTimeout]_vars

(***************************************************************************)
(* Sync of a source whose file lies in a subdirectory, to a destination    *)
(* that holds at most the root and the subdirectory.                       *)
(***************************************************************************)
InitDeep ==
    /\ Fresh
    /\ src = SrcDeep
    /\ dst \in {Tree(DirEntry(SrcTime), NoEntry, d, NoEntry) : d \in {NoEntry, DirEntry(SrcTime)}}
    /\ resolver = DefaultResolver
    /\ opts \in [DryRun : BOOLEAN, ChecksumVerify : {TRUE}, Workers : 0..1, Timeout : {0}]
    /\ fault \in {f \in [Rel -> FaultKinds] : \A p \in Rel : p # "d/b" => f[p] = "none"}

SpecDeep == InitDeep /\ [][Next]_vars

(***************************************************************************)
(* One Sync whose copier meets a failure of any of its steps, on a source  *)
(* another process may write to after the scan.                            *)
(***************************************************************************)
\* another process rewrites the source file p, changing its size, after Sync has
\* scanned the source and before the worker of p is started
SourceChanges(p) ==
    /\ pc = "dispatch"
    /\ p \in pending
    /\ src[p].kind = "file"
    /\ src[p].mtime < Now
    /\ \E s \in 1..MaxSize :
            /\ s # src[p].size
            /\ src' = [src EXCEPT ![p] = FileEntry(s, Now, (src[p].body % MaxBody) + 1)]
    /\ UNCHANGED <<call, dst, backups, cache, resolver, stats, progress, errors, opts, ctx,
                   deadline, pc, result, srcFiles, destMap, pending, sem, wg, w, fault, run,
                   hist>>

InitCopy ==
    /\ Fresh
    /\ src = SrcFlat
    /\ dst \in DstTrees
    /\ resolver = DefaultResolver
    /\ opts \in [DryRun : {FALSE}, ChecksumVerify : {TRUE}, Workers : {1}, Timeout : {0}]
    /\ fault \in {f \in [Rel -> CopyFaults] : \A p \in Rel : p # "a" => f[p] = "none"}

NextCopy ==
    \/ Next
    \/ \E p \in Rel : SourceChanges(p)

SpecCopy == InitCopy /\ [][NextCopy]_vars

(***************************************************************************)
(* Calls of single functions of the resolver and the retry manager, each   *)
(* on an object its constructor has just built from a configuration.       *)
(***************************************************************************)
engineVars == <<src, dst, backups, cache, resolver, stats, progress, errors, opts, ctx,
                deadline, pc, result, srcFiles, destMap, pending, sem, wg, w, fault, run,
                hist>>

\* the strategies validateConflictConfig accepts
ConflictStrategies == Strategies \cup {"interactive"}

\* a FileInfo of a regular file
Info(s, t, c) == [present |-> TRUE, Size |-> s, ModTime |-> t, IsDir |-> FALSE, Checksum |-> c]

\* sizes around the threshold of resolveSmart, times around its minute
CallSizes == {0, SmartSizeDiff, SmartSizeDiff + 1, 2 * SmartSizeDiff}
CallTimes == {0, 30 * TicksPerSec, Minute, Minute + 1}
CallSums == {NoSum, <<checksumAlgo, 1, 1>>, <<checksumAlgo, 1, 2>>}

\* the records DetectConflict is called with: nil or a FileInfo
InfoRecords == {NoInfo} \cup {Info(s, t, c) : s \in CallSizes, t \in CallTimes, c \in CallSums}

\* the records of a ConflictInfo
ConflictRecords == {Info(s, t, NoSum) : s \in CallSizes, t \in CallTimes}

\* NewConflictResolver(cfg)
CallResolvers ==
    [strategy : ConflictStrategies, backup : {FALSE}, interactive : BOOLEAN]

\* ResolveConflict: whether resolveInteractively is called
Prompts(r) == r.interactive

CallDetectConflict ==
    /\ call = NoCall
    /\ \E s \in InfoRecords, d \in InfoRecords :
            call' = [fn |-> "DetectConflict", source |-> s, dest |-> d,
                     ret |-> DetectConflict(s, d)]
    /\ UNCHANGED engineVars

CallResolveConflict ==
    /\ call = NoCall
    /\ \E r \in CallResolvers, s \in ConflictRecords, d \in ConflictRecords :
        \E answer \in (IF Prompts(r) THEN Answers ELSE {"s"}) :
            call' = [fn |-> "ResolveConflict", cfg |-> r, source |-> s, dest |-> d,
                     answer |-> answer, prompted |-> Prompts(r),
                     ret |-> ResolveConflict(r, s, d, answer)]
    /\ UNCHANGED engineVars

\* math.Pow on the small whole numbers of the model
Pow(b, k) ==
    LET f[i \in 0..k] == IF i = 0 THEN 1 ELSE b * f[i - 1]
    IN  f[k]

\* RetryConfig.Multiplier as a fraction
Multipliers == {[num |-> 1, den |-> 1], [num |-> 2, den |-> 1], [num |-> 3, den |-> 2]}

\* RetryConfig.Backoff; the empty string takes the default branch
Backoffs == {"fixed", "linear", "exponential", ""}

RetryConfigs ==
    [MaxAttempts : 0..MaxTries, InitialDelay : 1..MaxDur, MaxDelay : 1..MaxDur,
     Multiplier : Multipliers, Backoff : Backoffs]

\* calculateDelay; the conversion of the float product to a Duration truncates
calculateDelay(cfg, attempt) ==
    CASE cfg.Backoff = "fixed" -> cfg.InitialDelay
      [] cfg.Backoff = "linear" ->
            IF cfg.InitialDelay * attempt > cfg.MaxDelay THEN cfg.MaxDelay
            ELSE cfg.InitialDelay * attempt
      [] OTHER ->
            LET delay == (cfg.InitialDelay * Pow(cfg.Multiplier.num, attempt - 1))
                            \div Pow(cfg.Multiplier.den, attempt - 1)
            IN  IF delay > cfg.MaxDelay THEN cfg.MaxDelay ELSE delay

CallCalculateDelay ==
    /\ call = NoCall
    /\ \E cfg \in RetryConfigs, attempt \in 1..MaxTries :
            call' = [fn |-> "calculateDelay", cfg |-> cfg, attempt |-> attempt,
                     ret |-> calculateDelay(cfg, attempt)]
    /\ UNCHANGED engineVars

\* NewFatalError and NewRetryableError: a *RetryableError layer around err
FatalLayer == "RetryableError{Fatal}"
RetryableLayer == "RetryableError{Retryable}"
NonRetryableLayer == "RetryableError{}"
NewFatalError(err) == <<FatalLayer>> \o err
NewRetryableError(err, retryable) ==
    <<IF retryable THEN RetryableLayer ELSE NonRetryableLayer>> \o err

isNotFoundError(err) ==
    \E pat \in {"no such file or directory", "file not found", "path not found",
                "not found"} : MsgContains(err, pat)

isIOError(err) ==
    \E pat \in {"i/o error", "input/output error", "read error", "write error",
                "broken pipe", "connection broken"} : MsgContains(err, pat)

\* ClassifyError, for an error that is not nil
ClassifyError(err) ==
    CASE isNetworkError(err) -> NewRetryableError(err, TRUE)
      [] isPermissionError(err) -> NewRetryableError(err, FALSE)
      [] isDiskFullError(err) -> NewRetryableError(err, FALSE)
      [] isContextError(err) -> NewFatalError(err)
      [] isNotFoundError(err) -> NewRetryableError(err, FALSE)
      [] isIOError(err) -> NewRetryableError(err, TRUE)
      [] OTHER -> NewRetryableError(err, TRUE)

\* errors.As(err, &retryableErr): the first *RetryableError of the chain
AsRetryable(err) ==
    LET at == {i \in 1..Len(err) : err[i] \in {FatalLayer, RetryableLayer, NonRetryableLayer}}
    IN  IF at = {} THEN "none" ELSE err[CHOOSE i \in at : \A j \in at : i <= j]

\* what an operation may return: nil, errors as the copier returns them, the
\* error of a deadline of the operation's own, and errors a caller has wrapped
\* with NewFatalError or NewRetryableError
OperationErrors ==
    {<<>>,
     Wrap("failed to copy file content", <<EIO>>),
     Wrap("failed to create destination file", PathError(EACCES)),
     Wrap("failed to copy file content", <<"no space left on device">>),
     Wrap("failed to stat source file", PathError(ENOENT)),
     Wrap("failed to copy file content", <<Canceled>>),
     <<"context deadline exceeded">>,
     NewFatalError(<<Canceled>>),
     NewRetryableError(<<EIO>>, TRUE),
     NewRetryableError(PathError(EACCES), FALSE)}

\* the loop of ExecuteWithRetry counting its attempts from 0
loopConditionFromZero(cfg, attempt) == attempt - 1 <= cfg.MaxAttempts

\* ExecuteWithRetry: the condition of its for loop
loopCondition(cfg, attempt) == attempt <= cfg.MaxAttempts

\* ExecuteWithRetry is called: the loop is entered or skipped.  stopAt records
\* how often the operation had been invoked when the context was cancelled
\* during a wait or the operation returned a cancellation or deadline error
CallExecuteWithRetry ==
    /\ call = NoCall
    /\ \E cfg \in RetryConfigs :
            call' = [fn |-> "ExecuteWithRetry", cfg |-> cfg, attempt |-> 1, invoked |-> 0,
                     succeeded |-> FALSE, slept |-> 0, lastErr |-> <<>>, cancelled |-> FALSE, stopAt |-> 0,
                     pc |-> IF loopCondition(cfg, 1) THEN "operation" ELSE "returned",
                     ret |-> IF loopCondition(cfg, 1) THEN <<>>
                             ELSE <<"operation failed after attempts">>]
    /\ UNCHANGED engineVars

\* ExecuteWithRetry: operation() returns e
RetryOperation(e) ==
    /\ call.fn = "ExecuteWithRetry"
    /\ call.pc = "operation"
    /\ LET c == [call EXCEPT !.invoked = @ + 1,
                             !.succeeded = @ \/ e = <<>>,
                             !.stopAt = IF @ = 0 /\ isContextError(e)
                                        THEN call.invoked + 1 ELSE @]
           as == AsRetryable(e)
       IN  call' =
             IF e = <<>> THEN [c EXCEPT !.pc = "returned", !.ret = <<>>]
             ELSE IF as = FatalLayer
             THEN [c EXCEPT !.pc = "returned", !.lastErr = e,
                            !.ret = Wrap("fatal error on attempt", e)]
             ELSE IF as = NonRetryableLayer
             THEN [c EXCEPT !.pc = "returned", !.lastErr = e,
                            !.ret = Wrap("non-retryable error on attempt", e)]
             ELSE IF call.attempt = call.cfg.MaxAttempts
             THEN [c EXCEPT !.pc = "returned", !.lastErr = e,
                            !.ret = Wrap("operation failed after attempts", e)]
             ELSE [c EXCEPT !.pc = "select", !.lastErr = e]
    /\ UNCHANGED engineVars

\* ExecuteWithRetry: the select after a failed attempt is left through
\* ctx.Done() when the context is cancelled before the timer fires, through the
\* timer otherwise
RetrySelect ==
    /\ call.fn = "ExecuteWithRetry"
    /\ call.pc = "select"
    /\ call' =
         IF call.cancelled
         THEN [call EXCEPT !.pc = "returned",
                           !.ret = Wrap("operation cancelled after attempts", <<Canceled>>)]
         ELSE LET c == [call EXCEPT !.slept = @ + calculateDelay(call.cfg, call.attempt),
                                    !.attempt = @ + 1]
              IN  IF loopCondition(c.cfg, c.attempt) THEN [c EXCEPT !.pc = "operation"]
                  ELSE [c EXCEPT !.pc = "returned",
                                 !.ret = Wrap("operation failed after attempts", c.lastErr)]
    /\ UNCHANGED engineVars

\* the caller cancels the context ExecuteWithRetry was given
RetryCancel ==
    /\ call.fn = "ExecuteWithRetry"
    /\ call.pc # "returned"
    /\ ~call.cancelled
    /\ call' = [call EXCEPT !.cancelled = TRUE,
                            !.stopAt = IF @ = 0 /\ call.pc = "select" THEN call.invoked ELSE @]
    /\ UNCHANGED engineVars

\* texts a caller's fmt.Errorf("...: %w", err) puts before an error: the
\* copier's own, and operation or path texts in which contains() finds a
\* pattern of isNetworkError, isPermissionError, isDiskFullError or
\* isNotFoundError
WrapTexts ==
    {"failed to copy file content", "timeout", "permission denied",
     "no space left on device", "not found"}

\* the errors handed to the classifiers: what an operation returns, and the
\* two context errors bare and wrapped
ClassifyInputs ==
    (OperationErrors \ {<<>>})
        \cup {<<c>> : c \in {Canceled, "context deadline exceeded"}}
        \cup {Wrap(t, <<c>>) : t \in WrapTexts, c \in {Canceled, "context deadline exceeded"}}

CallClassifyError ==
    /\ call = NoCall
    /\ \E err \in ClassifyInputs :
            call' = [fn |-> "ClassifyError", err |-> err, ret |-> ClassifyError(err)]
    /\ UNCHANGED engineVars

CallClassifySyncError ==
    /\ call = NoCall
    /\ \E err \in ClassifyInputs, path \in Rel :
            call' = [fn |-> "ClassifySyncError", err |-> err,
                     ret |-> ClassifySyncError("copy", path, err)]
    /\ UNCHANGED engineVars

InitCalls ==
    /\ Fresh
    /\ src = NoTree
    /\ dst = NoTree
    /\ resolver = DefaultResolver
    /\ opts = MirrorOpts
    /\ fault = NoFault

NextCalls ==
    \/ CallDetectConflict
    \/ CallResolveConflict
    \/ CallCalculateDelay
    \/ CallClassifyError
    \/ CallClassifySyncError
    \/ CallExecuteWithRetry
    \/ \E e \in OperationErrors : RetryOperation(e)
    \/ RetrySelect
    \/ RetryCancel

SpecCalls == InitCalls /\ [][NextCalls]_vars

(***************************************************************************)
(* The error handler on its own: goroutines add errors while a caller     *)
(* reads and clears.  ErrorHandler holds no lock, so AddError is a load    *)
(* of the slice followed by a store, and the calls of different goroutines *)
(* interleave.  An error is its number in the order of the AddError calls. *)
(***************************************************************************)
\* the largest maxErrors an error handler is made with
MaxCap == 2
\* the number of AddError calls made on one error handler
MaxAdds == 4
\* the goroutines that call AddError
NumAdders == 2

\* the limit NewErrorHandler falls back to
DefaultMaxErrors == 1000

Adders == 1..NumAdders

\* NewErrorHandler: the limit of the handler
NewErrorHandler(maxErrors) == IF maxErrors <= 0 THEN DefaultMaxErrors ELSE maxErrors

\* AddError refusing the new error when the handler is full
addErrorKeepOldest(errs, maxErrors, e) ==
    IF Len(errs) >= maxErrors THEN errs ELSE errs \o <<e>>

\* AddError on the slice errs of a handler with the limit maxErrors
addError(errs, maxErrors, e) ==
    (IF Len(errs) >= maxErrors THEN Tail(errs) ELSE errs) \o <<e>>

IdleAdder == [pc |-> "idle", e |-> 0, seen |-> <<>>]

\* some call on the handler has begun and not ended
InCall == \E t \in Adders : call.g[t].pc # "idle"

\* NewErrorHandler(maxErrors) is called
CallNewErrorHandler ==
    /\ call = NoCall
    /\ \E n \in -1..MaxCap :
            call' = [fn |-> "ErrorHandler", configured |-> n,
                     maxErrors |-> NewErrorHandler(n), errors |-> <<>>,
                     added |-> <<>>, next |-> 1, cleared |-> FALSE, overlapped |-> FALSE,
                     g |-> [t \in Adders |-> IdleAdder], snapshot |-> <<>>, taken |-> FALSE]
    /\ UNCHANGED engineVars

\* AddError, goroutine t: eh.errors is read
AddErrorLoad(t) ==
    /\ call.fn = "ErrorHandler"
    /\ call.g[t].pc = "idle"
    /\ call.next <= MaxAdds
    /\ call' = [call EXCEPT !.g[t] = [pc |-> "store", e |-> call.next, seen |-> call.errors],
                            !.next = @ + 1,
                            !.overlapped = @ \/ InCall]
    /\ UNCHANGED engineVars

\* AddError, goroutine t: the slice made from what was read is stored
AddErrorStore(t) ==
    /\ call.fn = "ErrorHandler"
    /\ call.g[t].pc = "store"
    /\ call' = [call EXCEPT !.errors = addError(call.g[t].seen, call.maxErrors, call.g[t].e),
                            !.added = Append(@, call.g[t].e),
                            !.g[t] = IdleAdder]
    /\ UNCHANGED engineVars

\* Clear
ErrorsClear ==
    /\ call.fn = "ErrorHandler"
    /\ call.errors # <<>>
    /\ call' = [call EXCEPT !.errors = <<>>, !.added = <<>>, !.cleared = TRUE,
                            !.overlapped = @ \/ InCall]
    /\ UNCHANGED engineVars

\* GetErrors: the caller is given a copy of the slice
ErrorsGet ==
    /\ call.fn = "ErrorHandler"
    /\ ~call.taken
    /\ call.errors # <<>>
    /\ call' = [call EXCEPT !.snapshot = call.errors, !.taken = TRUE,
                            !.overlapped = @ \/ InCall]
    /\ UNCHANGED engineVars

NextErrors ==
    \/ CallNewErrorHandler
    \/ \E t \in Adders : AddErrorLoad(t)
    \/ \E t \in Adders : AddErrorStore(t)
    \/ ErrorsClear
    \/ ErrorsGet

SpecErrors == InitCalls /\ [][NextErrors]_vars

(***************************************************************************)
(* ScanWithFilter on its own, goroutine by goroutine, on a tree that holds *)
(* every path of Rel.  filepath.WalkDir calls the callback for the entries *)
(* in lexical order; the callback starts one goroutine per entry.          *)
(***************************************************************************)
\* the largest maxConcurrency a scanner is made with
MaxConc == 2

\* the order in which WalkDir visits the tree
WalkOrder == <<".", "a", "d", "d/b">>

\* ScanWithFilter is called: some entries cannot be stat'ed, the filter rejects
\* some, and the directory d may be unreadable, which WalkDir reports to the
\* callback in place of the entries of d
CallScan ==
    /\ call = NoCall
    /\ \E n \in 1..MaxConc, sf \in SUBSET {"a"}, rj \in SUBSET {"d/b"}, wf \in BOOLEAN :
            call' = [fn |-> "Scan", maxConcurrency |-> n, statFails |-> sf, rejected |-> rj,
                     unreadable |-> wf, next |-> 1, walked |-> {}, running |-> {},
                     files |-> <<>>, cancelled |-> FALSE, pc |-> "walk", ret |-> <<>>]
    /\ UNCHANGED engineVars

\* the callback of WalkDir for the next entry: it returns the error it is
\* given or ctx.Err(), which ends the walk and ScanWithFilter at once, or
\* acquires the semaphore and starts the goroutine of the entry
ScanWalk ==
    /\ call.fn = "Scan"
    /\ call.pc = "walk"
    /\ IF call.next > Len(WalkOrder)
       THEN call' = [call EXCEPT !.pc = "join"]
       ELSE LET p == WalkOrder[call.next]
            IN  IF call.unreadable /\ Parent(p) = "d"
                THEN call' = [call EXCEPT !.pc = "returned",
                                !.ret = Wrap("failed to scan directory", PathError(EACCES))]
                ELSE IF call.cancelled
                THEN call' = [call EXCEPT !.pc = "returned",
                                !.ret = Wrap("failed to scan directory", <<Canceled>>)]
                ELSE /\ Cardinality(call.running) < call.maxConcurrency
                     /\ call' = [call EXCEPT !.next = @ + 1,
                                             !.walked = @ \cup {p},
                                             !.running = @ \cup {p}]
    /\ UNCHANGED engineVars

\* the goroutine of the entry p: getFileInfo, the filter, the append under the
\* mutex and the release of the semaphore
ScanTask(p) ==
    /\ call.fn = "Scan"
    /\ p \in call.running
    /\ call' = [call EXCEPT !.running = @ \ {p},
                            !.files = IF p \in call.statFails \cup call.rejected
                                      THEN @ ELSE Append(@, p)]
    /\ UNCHANGED engineVars

\* sem.Acquire(ctx, maxConcurrency) after the walk: it returns ctx.Err() when
\* the context is done, and nil once every goroutine has released its token
ScanJoin ==
    /\ call.fn = "Scan"
    /\ call.pc = "join"
    /\ IF call.cancelled
       THEN call' = [call EXCEPT !.pc = "returned", !.ret = <<Canceled>>]
       ELSE /\ call.running = {}
            /\ call' = [call EXCEPT !.pc = "returned", !.ret = <<>>]
    /\ UNCHANGED engineVars

\* the caller cancels the context of the scan
ScanCancel ==
    /\ call.fn = "Scan"
    /\ call.pc # "returned"
    /\ ~call.cancelled
    /\ call' = [call EXCEPT !.cancelled = TRUE]
    /\ UNCHANGED engineVars

NextScan ==
    \/ CallScan
    \/ ScanWalk
    \/ \E p \in Rel : ScanTask(p)
    \/ ScanJoin
    \/ ScanCancel

SpecScan == InitCalls /\ [][NextScan]_vars

(***************************************************************************)
(* A FileWatcher that watches one path: the calls of Start and Stop, the   *)
(* raw events of fsnotify, the debouncer and the two channels.  A raw      *)
(* event is numbered in the order of arrival; the file is rewritten with   *)
(* every raw event, so the state of the file is the number of the last     *)
(* one.  The timer armed for a raw event carries its number.               *)
(***************************************************************************)
\* the number of Start and Stop calls made on one watcher
MaxCalls == 4
\* the number of raw events and errors fsnotify delivers
MaxRaw == 2

\* the number of elements the consumer receives from the channels
MaxReads == 2

\* the capacities of the channels events and errors
EventsCap == 1000
ErrorsCap == 100

\* mapEventType: the kinds of change of the raw events of the model
Kinds == {"modify", "delete"}

RawIds == 1..MaxRaw

\* a send that is not wrapped in a select with a default case, on a queue that
\* takes whatever it is given
chanSendAlways(n, cap) == [len |-> n + 1, sent |-> TRUE]

\* select { case ch <- x: default: } on a channel that holds n of cap elements
chanSend(n, cap) == [len |-> IF n < cap THEN n + 1 ELSE n, sent |-> n < cap]

\* the fields of a watcher NewFileWatcher has made
NewWatcher ==
    [fn |-> "FileWatcher", running |-> FALSE, closed |-> FALSE,
     channelsClosed |-> FALSE, loops |-> 0, ctxDone |-> FALSE,
     panicked |-> FALSE, sentClosed |-> FALSE, calls |-> <<>>,
     raw |-> <<>>, arrived |-> 0, rawErrors |-> 0, burst |-> TRUE,
     kinds |-> [t \in RawIds |-> "none"],
     pending |-> 0, timers |-> [t \in RawIds |-> "none"],
     events |-> 0, errors |-> 0, reads |-> 0, emitted |-> <<>>, sends |-> <<>>]

\* NewFileWatcher: the watcher is not running; its fsnotify watcher and its
\* channels are open and empty; no event loop runs and no timer is armed
CallNewFileWatcher ==
    /\ call = NoCall
    /\ call' = NewWatcher
    /\ UNCHANGED engineVars

\* the record of a call: what was called, whether the watcher was running, what
\* was returned and whether a field of the watcher was changed
Called(op, ret, c) ==
    [op |-> op, wasRunning |-> call.running, ret |-> ret,
     changed |-> (c.running # call.running \/ c.closed # call.closed \/
                  c.channelsClosed # call.channelsClosed \/ c.loops # call.loops)]

\* Start: an error while running; otherwise running is set and an event loop
\* is started
WatcherStart ==
    /\ call.fn = "FileWatcher"
    /\ ~call.panicked
    /\ Len(call.calls) < MaxCalls
    /\ LET c == IF call.running THEN call
                ELSE [call EXCEPT !.running = TRUE, !.loops = @ + 1]
           ret == IF call.running THEN "watcher is already running" ELSE "nil"
       IN  call' = [c EXCEPT !.calls = Append(@, Called("Start", ret, c))]
    /\ UNCHANGED engineVars

\* Stop: an error while not running; otherwise running is cleared, the fsnotify
\* watcher is closed (Close returns nil on a closed watcher), the channels
\* events and errors are closed, which panics when they are closed already,
\* and the timers the map pending holds are stopped, which has no effect on a
\* timer that has expired
WatcherStop ==
    /\ call.fn = "FileWatcher"
    /\ ~call.panicked
    /\ Len(call.calls) < MaxCalls
    /\ LET c == IF ~call.running THEN call
                ELSE IF call.channelsClosed
                THEN [call EXCEPT !.running = FALSE, !.closed = TRUE, !.panicked = TRUE]
                ELSE [call EXCEPT !.running = FALSE, !.closed = TRUE,
                                  !.channelsClosed = TRUE,
                                  !.raw = <<>>,
                                  !.pending = 0,
                                  !.timers = [t \in RawIds |->
                                                IF t = call.pending /\ @[t] = "armed"
                                                THEN "stopped" ELSE @[t]]]
           ret == IF ~call.running THEN "watcher is not running"
                  ELSE IF call.channelsClosed THEN "panic: close of closed channel"
                  ELSE "nil"
       IN  call' = [c EXCEPT !.calls = Append(@, Called("Stop", ret, c))]
    /\ UNCHANGED engineVars

\* eventLoop returns: its context is done or the channels of the fsnotify
\* watcher have been closed
EventLoopExit ==
    /\ call.fn = "FileWatcher"
    /\ call.loops > 0
    /\ call.ctxDone \/ call.closed
    /\ call' = [call EXCEPT !.loops = @ - 1]
    /\ UNCHANGED engineVars

\* the context given to Start is cancelled
WatcherCancel ==
    /\ call.fn = "FileWatcher"
    /\ ~call.panicked
    /\ ~call.ctxDone
    /\ call' = [call EXCEPT !.ctxDone = TRUE]
    /\ UNCHANGED engineVars

\* the file is changed and fsnotify queues a raw event of the kind k.  burst
\* stays true as long as every raw event arrives before the timer armed for
\* the one before it has expired
RawEvent(k) ==
    /\ call.fn = "FileWatcher"
    /\ ~call.panicked
    /\ ~call.closed
    /\ call.arrived < MaxRaw
    /\ LET id == call.arrived + 1
       IN  call' = [call EXCEPT
                      !.raw = Append(@, id),
                      !.kinds[id] = k,
                      !.arrived = id,
                      !.burst = @ /\ (id = 1 \/ call.timers[id - 1] \in {"none", "armed"})]
    /\ UNCHANGED engineVars

\* eventLoop receives a raw event: handleEvent and debounce, which stops the
\* timer pending for the path and arms a new one
LoopHandleEvent ==
    /\ call.fn = "FileWatcher"
    /\ ~call.panicked
    /\ call.loops > 0
    /\ ~call.closed
    /\ call.raw # <<>>
    /\ LET id == Head(call.raw)
       IN  call' = [call EXCEPT
                      !.raw = Tail(@),
                      !.pending = id,
                      !.timers = [t \in RawIds |->
                                    IF t = id THEN "armed"
                                    ELSE IF t = call.pending /\ @[t] = "armed" THEN "stopped"
                                    ELSE @[t]]]
    /\ UNCHANGED engineVars

\* the delay of the timer t has passed: the runtime starts its function
TimerExpire(t) ==
    /\ call.fn = "FileWatcher"
    /\ ~call.panicked
    /\ call.timers[t] = "armed"
    /\ call' = [call EXCEPT !.timers[t] = "fired"]
    /\ UNCHANGED engineVars

\* the function of the timer t, under the lock of the debouncer: the entry of
\* the path is deleted from pending, whichever timer it holds
CallbackDelete(t) ==
    /\ call.fn = "FileWatcher"
    /\ ~call.panicked
    /\ call.timers[t] = "fired"
    /\ call' = [call EXCEPT !.timers[t] = "unlocked", !.pending = 0]
    /\ UNCHANGED engineVars

\* the function of the timer t after the lock: the path is stat'ed and the
\* ChangeEvent is sent on events, which panics when the channel is closed
CallbackSend(t) ==
    /\ call.fn = "FileWatcher"
    /\ ~call.panicked
    /\ call.timers[t] = "unlocked"
    /\ LET r == chanSend(call.events, EventsCap)
       IN  call' =
             IF call.channelsClosed
             THEN [call EXCEPT !.timers[t] = "done", !.panicked = TRUE,
                               !.sentClosed = TRUE]
             ELSE [call EXCEPT
                     !.timers[t] = "done",
                     !.events = r.len,
                     !.sends = Append(@, [full |-> call.events >= EventsCap, sent |-> r.sent]),
                     !.emitted = IF r.sent
                                 THEN Append(@, [id |-> t, kind |-> call.kinds[t],
                                                 info |-> call.arrived])
                                 ELSE @]
    /\ UNCHANGED engineVars

\* eventLoop receives an error of fsnotify and forwards it on errors
LoopForwardError ==
    /\ call.fn = "FileWatcher"
    /\ ~call.panicked
    /\ call.loops > 0
    /\ ~call.closed
    /\ call.rawErrors < MaxRaw
    /\ LET r == chanSend(call.errors, ErrorsCap)
       IN  call' = [call EXCEPT
                      !.rawErrors = @ + 1,
                      !.errors = r.len,
                      !.sends = Append(@, [full |-> call.errors >= ErrorsCap,
                                           sent |-> r.sent])]
    /\ UNCHANGED engineVars

\* the consumer receives a ChangeEvent from events
EventsConsume ==
    /\ call.fn = "FileWatcher"
    /\ ~call.panicked
    /\ call.events > 0
    /\ call.reads < MaxReads
    /\ call' = [call EXCEPT !.events = @ - 1, !.reads = @ + 1]
    /\ UNCHANGED engineVars

\* the consumer receives an error from errors
ErrorsConsume ==
    /\ call.fn = "FileWatcher"
    /\ ~call.panicked
    /\ call.errors > 0
    /\ call.reads < MaxReads
    /\ call' = [call EXCEPT !.errors = @ - 1, !.reads = @ + 1]
    /\ UNCHANGED engineVars

\* the steps of the event loop, the timers and the consumer
WatcherRun ==
    \/ \E k \in Kinds : RawEvent(k)
    \/ LoopHandleEvent
    \/ LoopForwardError
    \/ \E t \in RawIds : TimerExpire(t)
    \/ \E t \in RawIds : CallbackDelete(t)
    \/ \E t \in RawIds : CallbackSend(t)
    \/ EventsConsume
    \/ ErrorsConsume

NextWatch ==
    \/ CallNewFileWatcher
    \/ WatcherStart
    \/ WatcherStop
    \/ EventLoopExit
    \/ WatcherCancel
    \/ WatcherRun

SpecWatch == InitCalls /\ [][NextWatch]_vars

(***************************************************************************)
(* A started FileWatcher whose consumer has read nothing while the event   *)
(* loop and the timers filled the channels up to their last places.        *)
(***************************************************************************)
WatcherBacklog ==
    /\ call = NoCall
    /\ \E n \in {EventsCap - 1, EventsCap}, m \in {ErrorsCap - 1, ErrorsCap} :
            call' = [NewWatcher EXCEPT
                       !.running = TRUE, !.loops = 1, !.events = n, !.errors = m,
                       !.calls = <<[op |-> "Start", wasRunning |-> FALSE, ret |-> "nil",
                                    changed |-> TRUE]>>]
    /\ UNCHANGED engineVars

NextBacklog ==
    \/ WatcherBacklog
    \/ WatcherRun

SpecBacklog == InitCalls /\ [][NextBacklog]_vars

(***************************************************************************)
(* Watch mode: Watch starts the watcher and handleWatchEvents, which passes *)
(* each ChangeEvent of the watcher to handleChangeEvent until the context   *)
(* is cancelled.  call.handled lists the events handled with their outcome. *)
(***************************************************************************)
MaxEvents == 3

ChangeTypes == {"create", "modify", "delete"}

\* FileCopier.CopyFile(ctx, src/p, dst/p) for a regular file, from its call
\* to its return: the tree it leaves and the error it returns
watchCopy(t, p) ==
    IF ~MkdirAllOk(t, Parent(p))
    THEN [dst |-> t,
          err |-> Wrap("failed to create destination directory",
                       PathError("not a directory"))]
    ELSE IF t[p].kind = "dir"
    THEN [dst |-> MkdirAll(t, Parent(p), IntermediateMode),
          err |-> Wrap("failed to create destination file", PathError("is a directory"))]
    ELSE IF fault[p] = "denied"
    THEN [dst |-> MkdirAll(t, Parent(p), IntermediateMode),
          err |-> Wrap("failed to create destination file", PathError(EACCES))]
    ELSE IF ctx
    THEN [dst |-> Remove(OpenTrunc(MkdirAll(t, Parent(p), IntermediateMode), p), p),
          err |-> Wrap("failed to copy file content", <<Canceled>>)]
    ELSE [dst |-> WriteCopy(OpenTrunc(MkdirAll(t, Parent(p), IntermediateMode), p), p, src[p]),
          err |-> <<>>]

\* os.Remove(dst/p): a directory that is not empty is not removed
watchRemove(t, p) ==
    IF t[p].kind = "none"
    THEN [dst |-> t, err |-> PathError(ENOENT)]
    ELSE IF t[p].kind = "dir" /\ \E q \in Rel : q # p /\ Parent(q) = p /\ t[q].kind # "none"
    THEN [dst |-> t, err |-> PathError("directory not empty")]
    ELSE [dst |-> Remove(t, p), err |-> <<>>]

\* Watch up to its wait for the context: the watcher runs, handleWatchEvents
\* is started
Watch ==
    /\ call = NoCall
    /\ call' = [fn |-> "Watch", loop |-> TRUE, handled |-> <<>>]
    /\ UNCHANGED engineVars

\* the context of Watch is cancelled
WatchCancel ==
    /\ call.fn = "Watch"
    /\ ~ctx
    /\ ctx' = TRUE
    /\ UNCHANGED <<call, src, dst, backups, cache, resolver, stats, progress, errors, opts,
                   deadline, pc, result, srcFiles, destMap, pending, sem, wg, w, fault, run,
                   hist>>

\* handleWatchEvents takes the case ctx.Done() of its select and returns
handleWatchEventsReturn ==
    /\ call.fn = "Watch"
    /\ call.loop
    /\ ctx
    /\ call' = [call EXCEPT !.loop = FALSE]
    /\ UNCHANGED engineVars

\* handleWatchEvents receives a ChangeEvent of the given type for the path p
\* and handleChangeEvent applies it; event.Info is what the watcher has
\* stat'ed at the path (nil when it is missing).  A failure is printed
handleChangeEvent(type, p) ==
    /\ call.fn = "Watch"
    /\ call.loop
    /\ Len(call.handled) < MaxEvents
    /\ LET isFile == src[p].kind = "file"
           r == IF type = "delete" THEN watchRemove(dst, p)
                ELSE IF isFile THEN watchCopy(dst, p)
                ELSE [dst |-> dst, err |-> <<>>]
           failed == IF type = "delete" THEN r.err # <<>> /\ ~OsIsNotExist(r.err)
                     ELSE r.err # <<>>
       IN  /\ dst' = r.dst
           /\ call' = [call EXCEPT
                         !.handled = Append(@, [type |-> type, path |-> p,
                                                copier |-> type # "delete" /\ isFile,
                                                missing |-> dst[p].kind = "none",
                                                failed |-> failed,
                                                after |-> r.dst[p].kind,
                                                recorded |-> Len(errors)])]
    /\ UNCHANGED <<src, backups, cache, resolver, stats, progress, errors, opts, ctx,
                   deadline, pc, result, srcFiles, destMap, pending, sem, wg, w, fault, run,
                   hist>>

InitWatchMode ==
    /\ Fresh
    /\ src \in {SrcFlat, SrcDeep}
    /\ dst \in DstTrees
    /\ resolver = DefaultResolver
    /\ opts = MirrorOpts
    /\ fault \in {f \in [Rel -> {"none", "denied"}] : f["."] = "none" /\ f["d"] = "none"}

NextWatchMode ==
    \/ Watch
    \/ WatchCancel
    \/ handleWatchEventsReturn
    \/ \E type \in ChangeTypes, p \in Rel \ {"."} : handleChangeEvent(type, p)

SpecWatchMode == InitWatchMode /\ [][NextWatchMode]_vars

(***************************************************************************)
(* One interactive ConflictResolver used by the workers of a run: each      *)
(* worker calls ResolveConflict for the conflict of its entry.  The fields  *)
(* strategy and interactive are read and written without a lock: a worker   *)
(* other than the one that has written them reads either the value of the   *)
(* constructor or the value written.                                        *)
(***************************************************************************)
MaxConflicts == 3
NumResolvers == 2

ResolverWorkers == 1..NumResolvers

\* the records of the conflicts: the source older than, as old as and newer
\* than the destination
ResolverRecords == {Info(1, t, NoSum) : t \in 0..1}

\* what the user may answer to promptForDefaultStrategy
DefaultChoices == {"s", "d", "n", "k", "eof"}

\* the strategy promptForDefaultStrategy stores for a choice
chosenStrategy(choice) ==
    CASE choice = "s" -> "source"
      [] choice = "d" -> "destination"
      [] choice = "n" -> "newest"
      [] choice = "k" -> "skip"

IdleResolver == [pc |-> "idle", source |-> NoInfo, dest |-> NoInfo, after |-> "none"]

\* the values a worker t may read from the field f of the resolver
visible(c, t, f) ==
    IF c.writer \notin {0, t} THEN {c.cr[f], c.cfg[f]} ELSE {c.cr[f]}

\* NewConflictResolver with an interactive configuration
CallNewConflictResolver ==
    /\ call = NoCall
    /\ \E st \in ConflictStrategies :
          LET cfg == [strategy |-> st, backup |-> FALSE, interactive |-> TRUE]
          IN  call' = [fn |-> "ConflictResolver", cfg |-> cfg, cr |-> cfg, writer |-> 0,
                       elected |-> "none", panicked |-> FALSE,
                       workers |-> [t \in ResolverWorkers |-> IdleResolver],
                       results |-> <<>>]
    /\ UNCHANGED engineVars

\* the resolutions that have been asked for
resolverCalls(c) ==
    Len(c.results) + Cardinality({t \in ResolverWorkers : c.workers[t].pc # "idle"})

\* ResolveConflict, worker t, for the conflict of s and d: cr.interactive is
\* read; without it the decision is the one of cr.strategy
ResolveStart(t) ==
    /\ call.fn = "ConflictResolver"
    /\ ~call.panicked
    /\ call.workers[t].pc = "idle"
    /\ resolverCalls(call) < MaxConflicts
    /\ \E s \in ResolverRecords, d \in ResolverRecords :
       \E inter \in visible(call, t, "interactive"), st \in visible(call, t, "strategy") :
          call' =
            IF inter
            THEN [call EXCEPT !.workers[t] = [pc |-> "prompt", source |-> s, dest |-> d,
                                              after |-> call.elected]]
            ELSE [call EXCEPT
                    !.results = Append(@,
                        [worker |-> t, source |-> s, dest |-> d, prompted |-> FALSE,
                         elects |-> "none", after |-> call.elected,
                         ret |-> ResolveConflict([strategy |-> st, backup |-> FALSE,
                                                  interactive |-> FALSE], s, d, "s")])]
    /\ UNCHANGED engineVars

\* resolveInteractively, worker t: the answer of the user; "a" leads to
\* promptForDefaultStrategy
ResolvePrompt(t) ==
    /\ call.fn = "ConflictResolver"
    /\ ~call.panicked
    /\ call.workers[t].pc = "prompt"
    /\ \E answer \in Answers \cup {"a"} :
          LET wk == call.workers[t]
          IN  call' =
                IF answer = "a"
                THEN [call EXCEPT !.workers[t].pc = "default"]
                ELSE [call EXCEPT
                        !.workers[t] = IdleResolver,
                        !.results = Append(@,
                            [worker |-> t, source |-> wk.source, dest |-> wk.dest,
                             prompted |-> TRUE, elects |-> "none", after |-> wk.after,
                             ret |-> ResolveConflict(call.cfg, wk.source, wk.dest, answer)])]
    /\ UNCHANGED engineVars

\* promptForDefaultStrategy, worker t: the strategy is stored, interactive is
\* cleared and the decision is returned; for newest, resolveByNewest is called
\* with an empty ConflictInfo and dereferences its nil SourceInfo
ResolveDefault(t) ==
    /\ call.fn = "ConflictResolver"
    /\ ~call.panicked
    /\ call.workers[t].pc = "default"
    /\ \E choice \in DefaultChoices :
          LET wk == call.workers[t]
              res(x, r) == [worker |-> t, source |-> wk.source, dest |-> wk.dest,
                            prompted |-> TRUE, elects |-> x, after |-> wk.after, ret |-> r]
          IN  call' =
                IF choice = "eof"
                THEN [call EXCEPT !.workers[t] = IdleResolver,
                                  !.results = Append(@, res("none", "error"))]
                ELSE LET x == chosenStrategy(choice)
                         c2 == [call EXCEPT
                                  !.cr = [@ EXCEPT !.strategy = x, !.interactive = FALSE],
                                  !.writer = t,
                                  !.elected = x,
                                  !.workers[t] = IdleResolver]
                     IN  IF choice = "n"
                         THEN [c2 EXCEPT !.panicked = TRUE,
                                         !.results = Append(@, res(x, "panic"))]
                         ELSE [c2 EXCEPT
                                 !.results = Append(@,
                                     res(x, CASE choice = "s" -> "UseSource"
                                              [] choice = "d" -> "UseDestination"
                                              [] choice = "k" -> "Skip"))]
    /\ UNCHANGED engineVars

NextResolver ==
    \/ CallNewConflictResolver
    \/ \E t \in ResolverWorkers : ResolveStart(t)
    \/ \E t \in ResolverWorkers : ResolvePrompt(t)
    \/ \E t \in ResolverWorkers : ResolveDefault(t)

SpecResolver == InitCalls /\ [][NextResolver]_vars

(***************************************************************************)
(* One FileScanner whose checksum algorithm is changed between its scans of *)
(* a regular file.  call.records lists the FileInfo records of the scans.   *)
(***************************************************************************)
MaxScans == 3

\* the names SetChecksumAlgorithm is called with: the three calculateChecksum
\* knows and one it does not
Algorithms == {"blake3", "sha256", "md5", "crc32"}

\* calculateChecksum: the hash function it runs for s.checksumAlgo
hasherOf(algo) ==
    CASE algo = "blake3" -> "blake3"
      [] algo = "sha256" -> "sha256"
      [] algo = "md5" -> "sha256"
      [] OTHER -> "unsupported"

\* calculateChecksum of a scanner whose algorithm is algo
calculateChecksumWith(algo, e) == <<hasherOf(algo), e.size, e.body>>

\* the files that are scanned
ScannedFiles == {FileEntry(s, t, 1) : s \in 1..MaxSize, t \in {0, TicksPerSec}}

\* NewFileScanner, and the file its scans will find
CallNewFileScanner ==
    /\ call = NoCall
    /\ \E e \in ScannedFiles :
          call' = [fn |-> "FileScanner", checksumAlgo |-> checksumAlgo, cache |-> NoCache,
                   file |-> e, records |-> <<>>, sets |-> 0]
    /\ UNCHANGED engineVars

SetChecksumAlgorithm ==
    /\ call.fn = "FileScanner"
    /\ call.sets < MaxScans
    /\ \E algo \in Algorithms \ {call.checksumAlgo} :
          call' = [call EXCEPT !.checksumAlgo = algo, !.sets = @ + 1]
    /\ UNCHANGED engineVars

ClearCache ==
    /\ call.fn = "FileScanner"
    /\ call.cache # NoCache
    /\ call' = [call EXCEPT !.cache = NoCache]
    /\ UNCHANGED engineVars

\* the file is rewritten between two scans
ScannedFileChanges ==
    /\ call.fn = "FileScanner"
    /\ \E e \in ScannedFiles \ {call.file} : call' = [call EXCEPT !.file = e]
    /\ UNCHANGED engineVars

\* Scan reaches the file: getFileInfo and getChecksum.  An entry of the cache
\* with the file's size and second is returned as it is; otherwise the digest
\* is calculated and stored, and an unsupported algorithm leaves the record
\* without digest and tag
ScanFile ==
    /\ call.fn = "FileScanner"
    /\ Len(call.records) < MaxScans
    /\ LET e == call.file
           c == call.cache
           hit == c.valid /\ c.modTime = Unix(e.mtime) /\ c.size = e.size
           failed == ~hit /\ hasherOf(call.checksumAlgo) = "unsupported"
           sum == IF hit THEN c.checksum ELSE calculateChecksumWith(call.checksumAlgo, e)
       IN  call' = [call EXCEPT
                      !.cache = IF hit \/ failed THEN c
                                ELSE [valid |-> TRUE, checksum |-> sum,
                                      modTime |-> Unix(e.mtime), size |-> e.size],
                      !.records = Append(@,
                          [Size |-> e.size, ModTime |-> e.mtime,
                           Checksum |-> IF failed THEN NoSum ELSE sum,
                           ChecksumAlgo |-> IF failed THEN "" ELSE call.checksumAlgo,
                           cached |-> hit])]
    /\ UNCHANGED engineVars

NextScanner ==
    \/ CallNewFileScanner
    \/ SetChecksumAlgorithm
    \/ ClearCache
    \/ ScannedFileChanges
    \/ ScanFile

SpecScanner == InitCalls /\ [][NextScanner]_vars

(***************************************************************************)
(* Properties.                                                             *)
(***************************************************************************)
Returned == pc = "returned"
ReturnedNil == pc = "returned" /\ result = <<>>
SrcFilesOf == {p \in Rel : src[p].kind = "file"}

\* C1: at every point of a run the counters satisfy
\* FilesCreated + FilesModified <= FilesChanged <= FilesScanned.
CountersOrdered ==
    /\ stats.FilesCreated + stats.FilesModified <= stats.FilesChanged
    /\ stats.FilesChanged <= stats.FilesScanned

\* C2: when Sync has returned and its workers have finished, ErrorsEncountered
\* counts every entry whose syncFile failed exactly once, the error handler
\* holds exactly one error per failed copy, and Sync has returned nil.
ErrorsCountedOnce ==
    (Returned /\ Active = {} /\ ~ctx /\ stats.FilesScanned > 0 /\ ~hist.dstMissing) =>
        /\ result = <<>>
        /\ stats.ErrorsEncountered = Cardinality({p \in Rel : w[p].err # <<>>})
        /\ Len(errors) = Cardinality({p \in Rel : w[p].err # <<>> /\ w[p].attempt > 0})

\* C3, as claimed: after Sync has returned nil, every source regular file with
\* no error recorded has a destination file of the source's size and
\* modification time.
CopiedOrFailed ==
    ReturnedNil =>
        \A p \in SrcFilesOf :
            w[p].err = <<>> =>
                /\ dst[p].kind = "file"
                /\ dst[p].size = src[p].size
                /\ dst[p].mtime = src[p].mtime

\* C3, amended: after a Sync that is no dry run has returned nil, every source
\* regular file with no error recorded whose conflict, if it had one, was not
\* decided as Skip or UseDestination has a destination file of the source's
\* size and modification time.
CopiedOrFailedUnlessKept ==
    (ReturnedNil /\ ~opts.DryRun) =>
        \A p \in SrcFilesOf :
            (w[p].err = <<>> /\ w[p].decision \notin {"Skip", "UseDestination"}) =>
                /\ dst[p].kind = "file"
                /\ ~dst[p].partial
                /\ dst[p].size = src[p].size
                /\ dst[p].mtime = src[p].mtime

\* C3, witness: a run has overwritten a destination file of another size after
\* a conflict decided for the source.
OverwrittenAfterConflict ==
    /\ ReturnedNil
    /\ ~opts.DryRun
    /\ w["a"].decision = "UseSource"
    /\ w["a"].err = <<>>
    /\ destMap["a"].present
    /\ destMap["a"].Size # srcFiles["a"].Size
    /\ dst["a"].size = src["a"].size
    /\ dst["a"].mtime = src["a"].mtime

\* C4: a second Mirror after a Mirror that returned nil calls the copier for no
\* entry.
SecondMirrorCopiesNothing ==
    (run >= 2 /\ hist.prevOk) => hist.copyCalls = 0

\* C5: after a Mirror has returned nil and its workers have finished, a scan of
\* the destination by the engine's scanner reports, for every regular file the
\* run has copied, the digest a scan of the source reports.
DigestsAgreeAfterMirror ==
    (ReturnedNil /\ Active = {}) =>
        \A p \in SrcFilesOf :
            (w[p].attempt > 0 /\ w[p].err = <<>> /\ dst[p].kind = "file") =>
                getFileInfo(cache, <<"dst", p>>, dst[p]).Checksum
                    = getFileInfo(cache, <<"src", p>>, src[p]).Checksum

\* C6: a run that found no destination root does not fail on that: it goes on
\* with every source entry absent at the destination.
MissingDestinationIsEmpty ==
    hist.dstMissing =>
        /\ ~(Returned /\ result # <<>> /\ ~isContextError(result))
        /\ \A p \in Rel : ~destMap[p].present

\* C7: when the context was cancelled while a copy was transferring data, Sync
\* returns the cancellation error, and once its workers have finished no partly
\* written file is left.
CancelMidCopyReturnsError ==
    (Returned /\ hist.cancelMidCopy) =>
        /\ isContextError(result)
        /\ Active = {} => \A p \in Rel : ~dst[p].partial

\* C8: when Sync has returned, every worker it dispatched has finished.
ReturnAfterWorkersSettle ==
    Returned => Active = {}

\* C9: the semaphore is made for every Workers value, and at most W workers are
\* inside syncFile, W being Workers when positive and maxConcurrency otherwise.
PoolBound ==
    /\ pc # "panicked"
    /\ Cardinality(InSyncFile) <= (IF opts.Workers > 0 THEN opts.Workers ELSE maxConcurrency)

\* C10: once opts.Timeout has elapsed no entry is dispatched, and Sync returns
\* a deadline or cancellation error.
DeadlineBoundsSync ==
    /\ ~hist.lateDispatch
    /\ (Returned /\ deadline) => isContextError(result)

\* the entries whose syncFile has returned
Settled == {p \in Rel : w[p].pc \in {"progress", "done"}}

\* C11: in a dry run the copier is not called, nothing is copied to the backup
\* directory and the destination tree stays as the run found it.
DryRunTouchesNothing ==
    (opts.DryRun /\ run >= 1) =>
        /\ hist.copyCalls = 0
        /\ backups = {}
        /\ dst = hist.dst0

\* C12: with backups enabled, a destination entry that had a conflict decided
\* for the source is changed only after it has been copied to the backup
\* directory.
BackupBeforeOverwrite ==
    resolver.backup =>
        \A p \in Rel :
            (w[p].decision \in {"UseSource", "BackupAndUseSource"} /\ dst[p] # hist.dst0[p]) =>
                p \in backups

\* C13: on a BackupAndUseSource decision without a backup copy the destination
\* stays untouched, the conflict is not counted as resolved and syncFile
\* returns an error.
BackupDecisionNeedsBackup ==
    \A p \in Rel :
        (w[p].decision = "BackupAndUseSource" /\ p \notin backups) =>
            /\ dst[p] = hist.dst0[p]
            /\ stats.ConflictsResolved = 0
            /\ p \in Settled => w[p].err # <<>>

\* the file a is on both sides, the source's is newer, the resolver decides
\* by Newest, and syncFile has returned nil in a run that is no dry run
NewestSourceNewer ==
    /\ ~resolver.interactive
    /\ resolver.strategy = "newest"
    /\ ~opts.DryRun
    /\ srcFiles["a"].present /\ ~srcFiles["a"].IsDir
    /\ destMap["a"].present /\ ~destMap["a"].IsDir
    /\ srcFiles["a"].ModTime > destMap["a"].ModTime
    /\ "a" \in Settled
    /\ w["a"].err = <<>>

\* the destination file a has the content, size and time of the source's
Overwritten ==
    /\ dst["a"].kind = "file"
    /\ dst["a"].size = src["a"].size
    /\ dst["a"].body = src["a"].body
    /\ dst["a"].mtime = src["a"].mtime

\* C14, as claimed: Newest with a newer source overwrites the destination and
\* counts conflicts_found = 1, conflicts_resolved = 0, modified = 1.
NewestCountsUnresolved ==
    NewestSourceNewer =>
        /\ Overwritten
        /\ stats.ConflictsFound = 1
        /\ stats.ConflictsResolved = 0
        /\ stats.FilesModified = 1

\* C14, amended: Newest with a newer source overwrites the destination and
\* counts conflicts_found = 1, conflicts_resolved = 1, modified = 1.
NewestCountsResolved ==
    NewestSourceNewer =>
        /\ Overwritten
        /\ w["a"].decision = "UseSource"
        /\ stats.ConflictsFound = 1
        /\ stats.ConflictsResolved = 1
        /\ stats.FilesModified = 1

\* C14, witness: such a file has been overwritten, the destination's having had
\* another content.
NewestOverwroteOlder ==
    /\ NewestSourceNewer
    /\ Overwritten
    /\ hist.dst0["a"].body # src["a"].body
    /\ stats.FilesModified = 1

\* C15: DetectConflict reports the first that holds of: the sizes differ, the
\* modification times are unequal, both digests are present and unequal; it
\* reports no conflict exactly when none holds, and none for a nil record.
DetectConflictFirstMatch ==
    call.fn = "DetectConflict" =>
        LET s == call.source
            d == call.dest
            sizes == s.Size # d.Size
            times == s.ModTime # d.ModTime
            sums == s.Checksum # NoSum /\ d.Checksum # NoSum /\ s.Checksum # d.Checksum
        IN  IF ~s.present \/ ~d.present THEN call.ret = "none"
            ELSE /\ sizes => call.ret = "SizesDiffer"
                 /\ (~sizes /\ times) => call.ret = "ModTimesDiffer"
                 /\ (~sizes /\ ~times /\ sums) => call.ret = "ChecksumsDiffer"
                 /\ call.ret = "none" <=> ~(sizes \/ times \/ sums)

\* C15, witness: DetectConflict was called with records of different sizes,
\* times and digests.
DetectConflictAllDiffer ==
    /\ call.fn = "DetectConflict"
    /\ call.source.present /\ call.dest.present
    /\ call.source.Size # call.dest.Size
    /\ call.source.ModTime # call.dest.ModTime
    /\ call.source.Checksum # NoSum /\ call.dest.Checksum # NoSum
    /\ call.source.Checksum # call.dest.Checksum
    /\ call.ret = "SizesDiffer"

InteractiveDelegates ==
    (call.fn = "ResolveConflict" /\ call.cfg.strategy = "interactive") =>
        /\ call.prompted
        /\ call.ret = CASE call.answer = "s" -> "UseSource"
                        [] call.answer = "d" -> "UseDestination"
                        [] call.answer = "b" -> "BackupAndUseSource"
                        [] call.answer = "k" -> "Skip"
                        [] OTHER -> "error"

\* C18: ExecuteWithRetry invokes the operation at most MaxAttempts times.
RetryBudget ==
    call.fn = "ExecuteWithRetry" => call.invoked <= call.cfg.MaxAttempts

\* C18, witness: ExecuteWithRetry has returned after it used every attempt of a
\* configuration with several, its context cancelled on the way.
RetryBudgetUsed ==
    /\ call.fn = "ExecuteWithRetry"
    /\ call.pc = "returned"
    /\ call.cfg.MaxAttempts = MaxTries
    /\ call.invoked = call.cfg.MaxAttempts
    /\ call.cancelled
    /\ call.ret # <<>>

\* C19: every delay calculateDelay computes is at most MaxDelay, Linear gives
\* min(InitialDelay * attempt, MaxDelay), Fixed gives InitialDelay, and the
\* delays waited in one call of ExecuteWithRetry sum to at most
\* (MaxAttempts - 1) * MaxDelay.
DelayWithinMax ==
    /\ call.fn = "calculateDelay" =>
        /\ call.ret <= call.cfg.MaxDelay
        /\ call.cfg.Backoff = "linear" =>
              call.ret = (IF call.cfg.InitialDelay * call.attempt < call.cfg.MaxDelay
                          THEN call.cfg.InitialDelay * call.attempt ELSE call.cfg.MaxDelay)
        /\ call.cfg.Backoff = "fixed" => call.ret = call.cfg.InitialDelay
    /\ (call.fn = "ExecuteWithRetry" /\ call.cfg.MaxAttempts >= 1) =>
        call.slept <= (call.cfg.MaxAttempts - 1) * call.cfg.MaxDelay

\* C20: when the operation has returned an error of the permission-denied,
\* disk-full or not-found family, ExecuteWithRetry has returned: it neither
\* waits nor invokes the operation again.
NonRetryableReturnsAtOnce ==
    (/\ call.fn = "ExecuteWithRetry"
     /\ call.lastErr # <<>>
     /\ AsRetryable(call.lastErr) = "none"
     /\ AsRetryable(ClassifyError(call.lastErr)) = NonRetryableLayer) =>
        /\ call.pc = "returned"
        /\ call.slept = 0
        /\ call.invoked = 1

\* C21: once the context is cancelled during a wait between two attempts, or
\* the operation has returned a cancellation or deadline error, ExecuteWithRetry
\* does not invoke the operation again, and the error it returns wraps a
\* context error.
CancellationEndsRetry ==
    (call.fn = "ExecuteWithRetry" /\ call.stopAt > 0) =>
        /\ call.invoked = call.stopAt
        /\ call.pc # "operation"
        /\ call.pc = "returned" => isContextError(call.ret)

\* C22: a file whose copy failed FlakyFails times with a transient error, fewer
\* times than there are attempts, and then succeeded has had its copy invoked
\* FlakyFails + 1 times; the error handler holds nothing about it, no error has
\* been counted and the file is counted as changed.
RetriedInvisibly ==
    \A p \in Rel :
        (/\ fault[p] = "flaky"
         /\ FlakyFails < MaxAttempts
         /\ w[p].pc \in {"progress", "done"}
         /\ w[p].attempt > 0
         /\ w[p].err = <<>>) =>
            /\ w[p].attempt = FlakyFails + 1
            /\ hist.copyCalls = FlakyFails + 1
            /\ \A i \in 1..Len(errors) : errors[i].Path # p
            /\ stats.ErrorsEncountered = 0
            /\ stats.FilesChanged = 1
            /\ stats.FilesCreated + stats.FilesModified >= 1

\* C22, witness: Sync has returned nil after the copy of a succeeded in the
\* attempt that followed its transient failures.
RetriedFileCopied ==
    /\ pc = "returned"
    /\ result = <<>>
    /\ fault["a"] = "flaky"
    /\ w["a"].pc = "done"
    /\ w["a"].err = <<>>
    /\ w["a"].attempt = FlakyFails + 1
    /\ dst["a"].kind = "file"
    /\ ~dst["a"].partial
    /\ dst["a"].size = src["a"].size

\* the last n elements of the sequence q
LastOf(q, n) == IF Len(q) <= n THEN q ELSE SubSeq(q, Len(q) - n + 1, Len(q))

\* C23: as long as the calls on the error handler follow one another, it holds
\* at most N errors, N the configured limit or 1000 when that is not positive,
\* and they are the errors added last since the last Clear, in the order in
\* which they were added.
HandlerKeepsNewest ==
    (call.fn = "ErrorHandler" /\ ~call.overlapped) =>
        /\ call.maxErrors = (IF call.configured <= 0 THEN 1000 ELSE call.configured)
        /\ Len(call.errors) <= call.maxErrors
        /\ call.errors = LastOf(call.added, call.maxErrors)

\* C23, witness: a full handler has evicted its oldest error after a Clear.
HandlerEvicted ==
    /\ call.fn = "ErrorHandler"
    /\ ~call.overlapped
    /\ call.cleared
    /\ Len(call.added) > call.maxErrors
    /\ Len(call.errors) = call.maxErrors

\* C24: when every AddError call has returned and Clear was never called, each
\* error added is held exactly once as long as no more than N were added, and
\* never more than N are held.
NoErrorLost ==
    (/\ call.fn = "ErrorHandler"
     /\ ~call.cleared
     /\ ~InCall) =>
        /\ Len(call.errors) <= call.maxErrors
        /\ Len(call.added) <= call.maxErrors =>
              \A e \in 1..Len(call.added) :
                  Cardinality({i \in 1..Len(call.errors) : call.errors[i] = e}) = 1

\* an attempt of the copy of p has ended: the worker waits for the next one, or
\* syncFile has returned after it called the copier
AttemptEnded(p) ==
    /\ w[p].attempt > 0
    /\ w[p].pc \in {"retryWait", "progress", "done"}

\* C25: when a copy of a regular file has failed after the destination file was
\* created, by whatever step, no file is left at the destination path.
FailedCopyLeavesNoFile ==
    \A p \in Rel :
        (/\ AttemptEnded(p)
         /\ w[p].err # <<>>
         /\ ~MsgContains(w[p].err, "failed to create destination directory")
         /\ ~MsgContains(w[p].err, "failed to create destination file")) =>
            dst[p].kind = "none"

\* C26: when Sendfile fails after some bytes of a file, the copy does not fail
\* for it: an attempt of the copy that has opened the destination file ends in
\* an error only when the context is cancelled, and a copy that has succeeded
\* has written the whole file.
ZeroCopyFallbackCompletes ==
    \A p \in Rel :
        (fault[p] = "sendfile" /\ AttemptEnded(p)) =>
            IF w[p].err = <<>>
            THEN dst[p].kind = "file" /\ ~dst[p].partial /\ dst[p].size = src[p].size
            ELSE \/ isContextError(w[p].err)
                 \/ MsgContains(w[p].err, "failed to create destination directory")
                 \/ MsgContains(w[p].err, "failed to create destination file")

\* C27: BytesTransferred is the number of bytes written by the copies that have
\* succeeded, also when a source file has changed its size after the scan.
BytesMatchWritten == stats.BytesTransferred = hist.copied

\* the entry the scan of the current run found at the cache key k
ScannedEntry(k) == IF k[1] = "src" THEN src[k[2]] ELSE hist.dst0[k[2]]

\* the scan of the current run has walked the root of the cache key k
ScannedRoot(k) ==
    /\ ScanErr(src) = <<>>
    /\ k[1] = "dst" => ScanErr(hist.dst0) = <<>>

ScanReturnsSettled ==
    call.fn = "Scan" =>
        /\ Cardinality(call.running) <= call.maxConcurrency
        /\ call.pc = "returned" => call.running = {}
        /\ (call.pc = "returned" /\ call.ret = <<>>) =>
              \A p \in Rel :
                  Cardinality({i \in 1..Len(call.files) : call.files[i] = p}) =
                      (IF p \in call.walked \ (call.statFails \cup call.rejected)
                       THEN 1 ELSE 0)

\* C30: whatever Start and Stop calls are made on a watcher, a Start while it
\* is running and a Stop while it is not return an error and change nothing, at
\* most one event loop is active, and no call panics.
StartStopSafe ==
    call.fn = "FileWatcher" =>
        /\ \A i \in 1..Len(call.calls) :
              LET c == call.calls[i]
              IN  (c.wasRunning <=> c.op = "Start") =>
                      /\ c.ret \in {"watcher is already running", "watcher is not running"}
                      /\ ~c.changed
        /\ ~call.panicked
        /\ call.loops <= 1

\* every raw event has been handled and no timer is armed or running
WatcherQuiet ==
    /\ call.raw = <<>>
    /\ \A t \in RawIds : call.timers[t] \notin {"armed", "fired", "unlocked"}

\* C31: after a burst of raw events on the path, each arrived before the timer
\* armed for the one before it expired, exactly one ChangeEvent has been
\* emitted: it has the kind of the last raw event and the state of the file
\* after it.
DebounceEmitsOnce ==
    (/\ call.fn = "FileWatcher"
     /\ call.arrived >= 1
     /\ call.burst
     /\ ~call.closed
     /\ WatcherQuiet
     /\ call.timers[call.arrived] = "done") =>
        /\ Len(call.emitted) = 1
        /\ call.emitted[1].id = call.arrived
        /\ call.emitted[1].kind = call.kinds[call.arrived]
        /\ call.emitted[1].info = call.arrived

\* C37: no function of a debounce timer sends on the channel events after Stop
\* has closed it.
NoSendAfterClose ==
    call.fn = "FileWatcher" => ~call.sentClosed

ContextErrorsAreFatal ==
    /\ (call.fn = "ClassifyError" /\ isContextError(call.err)) =>
            AsRetryable(call.ret) = FatalLayer
    /\ (call.fn = "ClassifySyncError" /\ isContextError(call.err)) =>
            call.ret.Category = "Cancellation"

\* C34: in watch mode a Create or Modify of a regular file invokes the Copier
\* for the destination path, a Delete removes the destination path and a
\* missing destination is no failure; every failure is recorded in the error
\* aggregator, and events are handled as long as the context is not cancelled.
WatchFailuresRecorded ==
    call.fn = "Watch" =>
        /\ \A i \in 1..Len(call.handled) :
              LET h == call.handled[i]
              IN  /\ (h.type # "delete" /\ src[h.path].kind = "file") => h.copier
                  /\ (h.type = "delete" /\ h.missing) => ~h.failed
                  /\ (h.type = "delete" /\ ~h.failed) => h.after = "none"
        /\ Len(errors) = Cardinality({i \in 1..Len(call.handled) : call.handled[i].failed})
        /\ (~ctx /\ Len(call.handled) < MaxEvents) =>
              \A type \in ChangeTypes : ENABLED handleChangeEvent(type, "a")

\* C35: when a run has ended, every directory it has created in the
\* destination has the permission bits of its source directory, in whatever
\* order its workers have run.
CreatedDirectoriesHaveSourceMode ==
    (Returned /\ Active = {} /\ ~ctx) =>
        \A p \in Rel :
            (src[p].kind = "dir" /\ hist.dst0[p].kind = "none" /\ dst[p].kind = "dir") =>
                dst[p].mode = src[p].mode

\* the decision the strategy x gives for the records s and d
decisionOf(x, s, d) ==
    ResolveConflict([strategy |-> x, backup |-> FALSE, interactive |-> FALSE], s, d, "s")

\* C36: the call in which the user elects apply-to-all with the strategy X
\* returns the decision X gives for its conflict, and every conflict resolved
\* after it is decided by X without a prompt, also with several workers.
ApplyToAllDecides ==
    call.fn = "ConflictResolver" =>
        \A i \in 1..Len(call.results) :
            LET r == call.results[i]
            IN  /\ r.elects # "none" => r.ret = decisionOf(r.elects, r.source, r.dest)
                /\ r.after # "none" =>
                      /\ ~r.prompted
                      /\ r.ret = decisionOf(r.after, r.source, r.dest)

\* C38: when Sync returns nil without a cancellation, progress.Current equals
\* progress.Total and, with at least one source entry, Percentage is 100; at
\* no point of the run does Current exceed Total.
ProgressComplete ==
    /\ progress.Current <= progress.Total
    /\ (ReturnedNil /\ ~ctx) =>
          /\ progress.Current = progress.Total
          /\ progress.Total > 0 => progress.Percentage = 100

\* C39: every record of a scan that carries a digest carries a digest computed
\* with the algorithm of its tag, also when the algorithm was changed between
\* two scans.
DigestMatchesTag ==
    call.fn = "FileScanner" =>
        \A i \in 1..Len(call.records) :
            call.records[i].Checksum # NoSum =>
                call.records[i].Checksum[1] = call.records[i].ChecksumAlgo

\* C40: for every retry configuration, ExecuteWithRetry has run the operation
\* at least once when it returns, and it returns nil exactly when an
\* invocation of the operation has returned nil.
RetryRunsOperation ==
    (call.fn = "ExecuteWithRetry" /\ call.pc = "returned") =>
        /\ call.invoked >= 1
        /\ call.ret = <<>> <=> call.succeeded

====
